---------------------------- MODULE Spec2Model ----------------------------
(***************************************************************************)
(* Model of osiris-platform: the platform manifest (src/src/manifest.rs),  *)
(* the `emerge` operation (src/src/op/emerge.rs), the `build` operation    *)
(* (src/src/op/build.rs) and the command-line front end that drives them   *)
(* (src/src/bin/cargo-osiris.rs).                                          *)
(*                                                                         *)
(* Strings are sequences of tokens.  A token is either one of the special  *)
(* characters listed below or a word, which stands for a run of            *)
(* alphanumeric characters.  File contents are strings as well: the        *)
(* literal pieces of a template are tokens of their own.                   *)
(*                                                                         *)
(* An optional value is a sequence of length at most one: None is <<>>,    *)
(* Some(v) is <<v>>.                                                       *)
(***************************************************************************)
EXTENDS Integers, Sequences, FiniteSets, TLC

\* ------------------------------------------------------------------------
\* Options and results
\* ------------------------------------------------------------------------

None == <<>>

Some(v) == <<v>>

IsSome(o) == o # <<>>

Ok(v) == [ok |-> TRUE, val |-> v]

Err(e) == [ok |-> FALSE, err |-> e]

\* ------------------------------------------------------------------------
\* Characters
\* ------------------------------------------------------------------------

\* char::is_control
is_control(c) == c \in {"\n", "\t"}

\* The tokens that are not words.
SpecialChars == {".", "/", "-", "_", " ", "'", "\"", "\\", "\n", "\t", "&", "<"}

\* char::is_alphanumeric
is_alphanumeric(c) == c \notin SpecialChars

\* str::replace for single-character patterns
replace(s, from, to) == [i \in 1..Len(s) |-> IF s[i] = from THEN to ELSE s[i]]

\* ------------------------------------------------------------------------
\* Manifest validation (src/src/manifest.rs)
\* ------------------------------------------------------------------------

\* is_identifier without the check for the empty string
is_identifier_allow_empty(s) ==
    \A i \in 1..Len(s) : is_alphanumeric(s[i]) \/ s[i] = "-" \/ s[i] = "_"

is_identifier(s) ==
    /\ s # <<>>
    /\ \A i \in 1..Len(s) : is_alphanumeric(s[i]) \/ s[i] = "-" \/ s[i] = "_"

is_quotable(s) ==
    \A i \in 1..Len(s) :
        /\ ~is_control(s[i])
        /\ s[i] # "\\"
        /\ s[i] # "'"
        /\ s[i] # "\""

\* The check on `sdk-path` without the test for control characters
is_sdk_path_newline_only(s) == \A i \in 1..Len(s) : s[i] # "\n"

\* The check on `sdk-path` in parse_raw.
is_sdk_path(s) == \A i \in 1..Len(s) : ~is_control(s[i]) /\ s[i] # "\n"

\* RawPlatform::android
RawPlatform_android(platform) == platform.configuration

\* The per-platform part of parse_raw.
parse_raw_platform(platform) ==
    LET android == RawPlatform_android(platform) IN
    IsSome(android) =>
        /\ IsSome(android[1].application_id) => is_quotable(android[1].application_id[1])
        /\ IsSome(android[1].namespace) => is_quotable(android[1].namespace[1])
        /\ IsSome(android[1].version_name) => is_quotable(android[1].version_name[1])
        /\ IsSome(android[1].sdk_path) => is_sdk_path(android[1].sdk_path[1])

\* parse_raw_fields with the loop over the platform entries stopped after
\* the first entry
parse_raw_fields_first_platform(raw) ==
    IF /\ IsSome(raw.application) =>
              /\ IsSome(raw.application[1].id) => is_identifier(raw.application[1].id[1])
              /\ IsSome(raw.application[1].name) => is_quotable(raw.application[1].name[1])
       /\ raw.platform # <<>> => parse_raw_platform(raw.platform[1])
    THEN Ok([raw |-> raw])
    ELSE Err("invalid")

parse_raw_fields(raw) ==
    IF /\ IsSome(raw.application) =>
              /\ IsSome(raw.application[1].id) => is_identifier(raw.application[1].id[1])
              /\ IsSome(raw.application[1].name) => is_quotable(raw.application[1].name[1])
       /\ \A i \in 1..Len(raw.platform) : parse_raw_platform(raw.platform[i])
    THEN Ok([raw |-> raw])
    ELSE Err("invalid")

parse_raw_any_version(raw) == parse_raw_fields(raw)

\* Manifest::parse_raw
parse_raw(raw) ==
    IF raw.version # 1
    THEN Err("invalid")
    ELSE parse_raw_fields(raw)

\* An integer of a document deserializes into a u32.  The integers of the
\* model lie below 2^31, so that only the lower end of the range shows.
is_u32(n) == 0 <= n

\* Raw::parse_str.  A document is None when its text is not a TOML table
\* of the shape of `Raw` (or cannot be read), and Some(table) otherwise;
\* the integer `version` of the table deserializes into a u32 or not at
\* all.
Raw_parse_str(doc) ==
    IF IsSome(doc) /\ is_u32(doc[1].version) THEN Ok(doc[1]) ELSE Err("syntax")

\* ------------------------------------------------------------------------
\* Views (src/src/manifest.rs)
\* ------------------------------------------------------------------------

MissingKey(k) == [kind |-> "MissingKey", key |-> k]

\* RawApplication::view with the package looked at before the ID
RawApplication_view_package_first(app) ==
    IF ~IsSome(app.package) THEN Err(MissingKey(".package"))
    ELSE IF ~IsSome(app.id) THEN Err(MissingKey(".id"))
    ELSE Ok([id |-> app.id[1],
             name |-> IF IsSome(app.name) THEN app.name[1] ELSE app.id[1],
             path |-> IF IsSome(app.path) THEN app.path[1] ELSE <<".">>,
             package |-> app.package[1]])

\* RawApplication::view (the derived symbols are not modelled)
RawApplication_view(app) ==
    IF ~IsSome(app.id) THEN Err(MissingKey(".id"))
    ELSE IF ~IsSome(app.package) THEN Err(MissingKey(".package"))
    ELSE Ok([id |-> app.id[1],
             name |-> IF IsSome(app.name) THEN app.name[1] ELSE app.id[1],
             path |-> IF IsSome(app.path) THEN app.path[1] ELSE <<".">>,
             package |-> app.package[1]])

\* Raw::view_application
view_application(raw) ==
    IF ~IsSome(raw.application)
    THEN Err(MissingKey("application"))
    ELSE RawApplication_view(raw.application[1])

RECURSIVE first_match(_, _, _)
first_match(platforms, id, i) ==
    IF i > Len(platforms) THEN None
    ELSE IF platforms[i].id = id THEN Some(platforms[i])
    ELSE first_match(platforms, id, i + 1)

RECURSIVE last_match(_, _, _)
last_match(platforms, id, i) ==
    IF i < 1 THEN None
    ELSE IF platforms[i].id = id THEN Some(platforms[i])
    ELSE last_match(platforms, id, i - 1)

\* platform_by_id with the search run from the end of the list
platform_by_id_last(raw, id) == last_match(raw.platform, id, Len(raw.platform))

\* Raw::platform_by_id
platform_by_id(raw, id) == first_match(raw.platform, id, 1)

\* The application ID with application.id ahead of the platform value
view_application_id_reversed(android, raw) ==
    IF IsSome(raw.application) /\ IsSome(raw.application[1].id)
    THEN Ok(raw.application[1].id[1])
    ELSE IF IsSome(android.application_id) THEN Ok(android.application_id[1])
    ELSE Err(MissingKey(".application-id"))

\* RawPlatformAndroid::view, the application ID
view_application_id(android, raw) ==
    IF IsSome(android.application_id) THEN Ok(android.application_id[1])
    ELSE IF IsSome(raw.application) /\ IsSome(raw.application[1].id)
    THEN Ok(raw.application[1].id[1])
    ELSE Err(MissingKey(".application-id"))

\* The SDK triple filled from the first given value only
view_sdk_fill_from_min(min, tar, com) ==
    IF IsSome(min) THEN Ok(<<min[1], min[1], min[1]>>)
    ELSE IF IsSome(tar) THEN Ok(<<tar[1], tar[1], tar[1]>>)
    ELSE IF IsSome(com) THEN Ok(<<com[1], com[1], com[1]>>)
    ELSE Err(MissingKey(".min-sdk"))

\* RawPlatformAndroid::view, the match on (min_sdk, target_sdk, compile_sdk):
\* the triple is <<min, target, compile>>.
view_sdk(min, tar, com) ==
    IF ~IsSome(min) /\ ~IsSome(tar) /\ ~IsSome(com) THEN Err(MissingKey(".min-sdk"))
    ELSE IF IsSome(min) /\ ~IsSome(tar) /\ ~IsSome(com) THEN Ok(<<min[1], min[1], min[1]>>)
    ELSE IF ~IsSome(min) /\ IsSome(tar) /\ ~IsSome(com) THEN Ok(<<tar[1], tar[1], tar[1]>>)
    ELSE IF ~IsSome(min) /\ ~IsSome(tar) /\ IsSome(com) THEN Ok(<<com[1], com[1], com[1]>>)
    ELSE IF IsSome(min) /\ IsSome(tar) /\ ~IsSome(com) THEN Ok(<<min[1], tar[1], tar[1]>>)
    ELSE IF IsSome(min) /\ ~IsSome(tar) /\ IsSome(com) THEN Ok(<<min[1], com[1], com[1]>>)
    ELSE IF ~IsSome(min) /\ IsSome(tar) /\ IsSome(com) THEN Ok(<<tar[1], tar[1], com[1]>>)
    ELSE Ok(<<min[1], tar[1], com[1]>>)

\* The version code with 0 as its default
view_version_code_default_zero(android) ==
    IF IsSome(android.version_code) THEN android.version_code[1] ELSE 0

\* RawPlatformAndroid::view, version_code.unwrap_or(1)
view_version_code(android) ==
    IF IsSome(android.version_code) THEN android.version_code[1] ELSE 1

\* RawPlatformAndroid::view, version_name ... unwrap_or("0.1.0")
view_version_name(android) ==
    IF IsSome(android.version_name)
    THEN android.version_name[1]
    ELSE <<"0", ".", "1", ".", "0">>

\* RawPlatformAndroid::view with the checks of sdk-path and ndk-level ahead
\* of the others
RawPlatformAndroid_view_sdk_path_first(android, raw) ==
    LET application_id == view_application_id(android, raw)
        sdk == view_sdk(android.min_sdk, android.target_sdk, android.compile_sdk)
    IN
    IF ~IsSome(android.sdk_path) THEN Err(MissingKey(".sdk-path"))
    ELSE IF ~IsSome(android.ndk_level) THEN Err(MissingKey(".ndk-level"))
    ELSE IF ~IsSome(android.namespace) THEN Err(MissingKey(".namespace"))
    ELSE IF ~application_id.ok THEN application_id
    ELSE IF ~sdk.ok THEN sdk
    ELSE Ok([application_id |-> application_id.val,
             namespace |-> android.namespace[1],
             compile_sdk |-> sdk.val[3],
             min_sdk |-> sdk.val[1],
             target_sdk |-> sdk.val[2],
             ndk_level |-> android.ndk_level[1],
             version_code |-> view_version_code(android),
             version_name |-> view_version_name(android),
             sdk_path |-> android.sdk_path[1]])

\* RawPlatformAndroid::view
RawPlatformAndroid_view(android, raw) ==
    LET application_id == view_application_id(android, raw)
        sdk == view_sdk(android.min_sdk, android.target_sdk, android.compile_sdk)
    IN
    IF ~IsSome(android.namespace) THEN Err(MissingKey(".namespace"))
    ELSE IF ~application_id.ok THEN application_id
    ELSE IF ~sdk.ok THEN sdk
    ELSE IF ~IsSome(android.ndk_level) THEN Err(MissingKey(".ndk-level"))
    ELSE IF ~IsSome(android.sdk_path) THEN Err(MissingKey(".sdk-path"))
    ELSE Ok([application_id |-> application_id.val,
             namespace |-> android.namespace[1],
             compile_sdk |-> sdk.val[3],
             min_sdk |-> sdk.val[1],
             target_sdk |-> sdk.val[2],
             ndk_level |-> android.ndk_level[1],
             version_code |-> view_version_code(android),
             version_name |-> view_version_name(android),
             sdk_path |-> android.sdk_path[1]])

\* RawPlatform::path
RawPlatform_path(platform) ==
    IF IsSome(platform.path)
    THEN platform.path[1]
    ELSE <<".", "/", "platform", "/">> \o platform.id

\* ------------------------------------------------------------------------
\* Paths.  A path is the sequence of its components from the root; a
\* component is a non-empty string.  Relative paths are resolved against
\* the working directory of the process.
\* ------------------------------------------------------------------------

\* The working directory of the process.
Cwd == << <<"w">> >>

\* Path::is_absolute
is_absolute(s) == s # <<>> /\ s[1] = "/"

\* Empty components and `.` components do not name anything.
IsComponent(c) == c # <<>> /\ c # <<".">>

RECURSIVE split(_, _, _)
split(s, i, cur) ==
    IF i > Len(s)
    THEN IF IsComponent(cur) THEN <<cur>> ELSE <<>>
    ELSE IF s[i] = "/"
         THEN (IF IsComponent(cur) THEN <<cur>> ELSE <<>>) \o split(s, i + 1, <<>>)
         ELSE split(s, i + 1, Append(cur, s[i]))

\* Path::components
components(s) == split(s, 1, <<>>)

\* PathBuf::push / Path::join: an absolute argument replaces the path.
join(path, s) == IF is_absolute(s) THEN components(s) ELSE path \o components(s)

\* PathBuf::new() followed by push(): the path as the kernel resolves it.
resolve(s) == join(Cwd, s)

Prefixes(p) == {SubSeq(p, 1, k) : k \in 1..Len(p)}

ProperPrefixes(p) == {SubSeq(p, 1, k) : k \in 1..(Len(p) - 1)}

IsPrefix(p, q) == Len(p) <= Len(q) /\ SubSeq(q, 1, Len(p)) = p

Parent(p) == SubSeq(p, 1, Len(p) - 1)

\* ------------------------------------------------------------------------
\* The file system: a function from the existing paths to their nodes.
\* The root always exists.  `mtime` counts the writes to a file.
\* ------------------------------------------------------------------------

Dir == [kind |-> "dir"]

File(content, mtime) == [kind |-> "file", content |-> content, mtime |-> mtime]

IsDir(f, p) == p \in DOMAIN f /\ f[p].kind = "dir"

IsFile(f, p) == p \in DOMAIN f /\ f[p].kind = "file"

Put(f, p, node) == [q \in DOMAIN f \cup {p} |-> IF q = p THEN node ELSE f[q]]

\* std::fs::metadata
metadata(f, p) ==
    IF p \in DOMAIN f THEN Ok(f[p])
    ELSE IF \E q \in ProperPrefixes(p) : IsFile(f, q) THEN Err("NotADirectory")
    ELSE Err("NotFound")

\* std::fs::create_dir_all: fails when a component exists and is not a
\* directory, and creates every missing component otherwise.
create_dir_all(f, p) ==
    IF \E q \in Prefixes(p) : IsFile(f, q)
    THEN Err("NotADirectory")
    ELSE Ok([q \in DOMAIN f \cup Prefixes(p) |-> IF q \in DOMAIN f THEN f[q] ELSE Dir])

\* std::fs::remove_file
remove_file(f, p) ==
    IF p \notin DOMAIN f THEN
        IF \E q \in ProperPrefixes(p) : IsFile(f, q) THEN Err("NotADirectory")
        ELSE Err("NotFound")
    ELSE IF f[p].kind = "dir" THEN Err("IsADirectory")
    ELSE Ok([q \in DOMAIN f \ {p} |-> f[q]])

\* OpenOptions::new().read(true).write(true).create(true).open(path)
open_create(f, p) ==
    IF p \in DOMAIN f THEN
        IF f[p].kind = "dir" THEN Err("IsADirectory") ELSE Ok(f)
    ELSE IF ~IsDir(f, Parent(p)) THEN
        IF \E q \in ProperPrefixes(p) : IsFile(f, q) THEN Err("NotADirectory")
        ELSE Err("NotFound")
    ELSE Ok(Put(f, p, File(<<>>, 0)))

\* rewind, set_len(0), write_all
write_all(f, p, content) == Put(f, p, File(content, f[p].mtime + 1))

\* ------------------------------------------------------------------------
\* emerge: errors and file helpers (src/src/op/emerge.rs)
\* ------------------------------------------------------------------------

Already == [kind |-> "Already"]

ManifestKey(k) == [kind |-> "ManifestKey", key |-> k]

PlatformDirectory(p) == [kind |-> "PlatformDirectory", path |-> p]

DirectoryCreation(p) == [kind |-> "DirectoryCreation", path |-> p]

FileUpdate(p, e) == [kind |-> "FileUpdate", path |-> p, error |-> e]

FileRemoval(p, e) == [kind |-> "FileRemoval", path |-> p, error |-> e]

ensure_dir(f, path) ==
    LET r == create_dir_all(f, path) IN
    IF r.ok THEN r ELSE Err(DirectoryCreation(path))

update_file_always(f, path, content) ==
    LET o == open_create(f, path) IN
    IF ~o.ok THEN Err(FileUpdate(path, o.err))
    ELSE Ok(write_all(o.val, path, content))

update_file(f, path, content) ==
    LET o == open_create(f, path) IN
    IF ~o.ok THEN Err(FileUpdate(path, o.err))
    ELSE LET old == o.val[path].content IN
         IF old # content
         THEN Ok(write_all(o.val, path, content))
         ELSE Ok(o.val)

\* A variant of unlink_file that takes every failure of the removal for
\* success.
unlink_file_ignore_errors(f, path) ==
    LET r == remove_file(f, path) IN
    IF r.ok THEN r ELSE Ok(f)

unlink_file(f, path) ==
    LET r == remove_file(f, path) IN
    IF ~r.ok /\ r.err # "NotFound" THEN Err(FileRemoval(path, r.err))
    ELSE IF r.ok THEN r
    ELSE Ok(f)

\* ------------------------------------------------------------------------
\* emerge: the generated files (src/src/op/emerge.rs)
\* ------------------------------------------------------------------------

\* One line of a template.
Line(s) == <<s, "\n">>

\* Display of an integer
to_string(n) == <<ToString(n)>>

gradle_properties_content ==
    Line("# Generated by osiris-platform")
    \o Line("org.gradle.jvmargs=-Xmx2048m -Dfile.encoding=UTF-8")
    \o Line("android.useAndroidX=true")
    \o Line("android.nonTransitiveRClass=true")

local_properties_content(sdk_path) ==
    Line("# Generated by osiris-platform")
    \o <<"sdk.dir=">> \o sdk_path \o <<"\n">>

settings_gradle_content(appid) ==
    Line("// Generated by osiris-platform")
    \o Line("pluginManagement {")
    \o Line("    repositories {")
    \o Line("        google()")
    \o Line("        mavenCentral()")
    \o Line("        gradlePluginPortal()")
    \o Line("    }")
    \o Line("}")
    \o Line("dependencyResolutionManagement {")
    \o Line("    repositoriesMode.set(RepositoriesMode.FAIL_ON_PROJECT_REPOS)")
    \o Line("    repositories {")
    \o Line("        google()")
    \o Line("        mavenCentral()")
    \o Line("    }")
    \o Line("}")
    \o <<"rootProject.name = '">> \o appid \o <<"'", "\n">>

build_gradle_content(appid, namespace, compile_sdk, min_sdk, target_sdk, version_code, version_name) ==
    Line("// Generated by osiris-platform")
    \o Line("plugins {")
    \o Line("    id 'com.android.application' version '8.0.2'")
    \o Line("}")
    \o Line("")
    \o Line("android {")
    \o <<"    namespace '">> \o namespace \o <<"'", "\n">>
    \o <<"    compileSdk ">> \o to_string(compile_sdk) \o <<"\n">>
    \o Line("")
    \o Line("    defaultConfig {")
    \o <<"        applicationId '">> \o appid \o <<"'", "\n">>
    \o <<"        minSdk ">> \o to_string(min_sdk) \o <<"\n">>
    \o <<"        targetSdk ">> \o to_string(target_sdk) \o <<"\n">>
    \o <<"        versionCode ">> \o to_string(version_code) \o <<"\n">>
    \o <<"        versionName '">> \o version_name \o <<"'", "\n">>
    \o Line("")
    \o Line("        testInstrumentationRunner 'androidx.test.runner.AndroidJUnitRunner'")
    \o Line("    }")
    \o Line("")
    \o Line("    buildTypes {")
    \o Line("        release {")
    \o Line("            minifyEnabled false")
    \o Line("        }")
    \o Line("    }")
    \o Line("    compileOptions {")
    \o Line("        sourceCompatibility JavaVersion.VERSION_1_8")
    \o Line("        targetCompatibility JavaVersion.VERSION_1_8")
    \o Line("    }")
    \o Line("}")
    \o Line("")
    \o Line("dependencies {")
    \o Line("    implementation 'androidx.appcompat:appcompat:1.6.1'")
    \o Line("    implementation 'com.google.android.material:material:1.9.0'")
    \o Line("    implementation 'androidx.constraintlayout:constraintlayout:2.1.4'")
    \o Line("    testImplementation 'junit:junit:4.13.2'")
    \o Line("    androidTestImplementation 'androidx.test.ext:junit:1.1.5'")
    \o Line("    androidTestImplementation 'androidx.test.espresso:espresso-core:3.5.1'")
    \o Line("}")

android_manifest_content(appid) ==
    Line("<?xml version=\"1.0\" encoding=\"utf-8\"?>")
    \o Line("<!-- Generated by osiris-platform -->")
    \o Line("<manifest")
    \o Line("    xmlns:android=\"http://schemas.android.com/apk/res/android\"")
    \o Line("    xmlns:tools=\"http://schemas.android.com/tools\">")
    \o Line("")
    \o Line("    <application")
    \o Line("        android:allowBackup=\"true\"")
    \o Line("        android:label=\"@string/app_name\"")
    \o Line("        android:supportsRtl=\"true\"")
    \o <<"        android:theme=\"@style/Theme.">> \o appid \o <<"\">", "\n">>
    \o Line("        <activity")
    \o Line("            android:name=\".MainActivity\"")
    \o Line("            android:exported=\"true\">")
    \o Line("            <intent-filter>")
    \o Line("                <action android:name=\"android.intent.action.MAIN\" />")
    \o Line("                <category android:name=\"android.intent.category.LAUNCHER\" />")
    \o Line("            </intent-filter>")
    \o Line("        </activity>")
    \o Line("    </application>")
    \o Line("</manifest>")

activity_main_content ==
    Line("<?xml version=\"1.0\" encoding=\"utf-8\"?>")
    \o Line("<!-- Generated by osiris-platform -->")
    \o Line("<androidx.constraintlayout.widget.ConstraintLayout")
    \o Line("    xmlns:android=\"http://schemas.android.com/apk/res/android\"")
    \o Line("    xmlns:app=\"http://schemas.android.com/apk/res-auto\"")
    \o Line("    xmlns:tools=\"http://schemas.android.com/tools\"")
    \o Line("    android:layout_width=\"match_parent\"")
    \o Line("    android:layout_height=\"match_parent\"")
    \o Line("    tools:context=\".MainActivity\">")
    \o Line("")
    \o Line("    <TextView")
    \o Line("        android:layout_width=\"wrap_content\"")
    \o Line("        android:layout_height=\"wrap_content\"")
    \o Line("        android:text=\"Hello World!\"")
    \o Line("        app:layout_constraintBottom_toBottomOf=\"parent\"")
    \o Line("        app:layout_constraintEnd_toEndOf=\"parent\"")
    \o Line("        app:layout_constraintStart_toStartOf=\"parent\"")
    \o Line("        app:layout_constraintTop_toTopOf=\"parent\" />")
    \o Line("</androidx.constraintlayout.widget.ConstraintLayout>")

strings_content(name) ==
    Line("<!-- Generated by osiris-platform -->")
    \o Line("<resources>")
    \o <<"    <string name=\"app_name\">">> \o name \o <<"</string>", "\n">>
    \o Line("</resources>")

themes_content(appid) ==
    Line("<!-- Generated by osiris-platform -->")
    \o Line("<resources xmlns:tools=\"http://schemas.android.com/tools\">")
    \o <<"    <style name=\"Theme.">> \o appid
       \o <<"\" parent=\"Theme.Material3.DayNight.NoActionBar\">", "\n">>
    \o Line("    </style>")
    \o Line("</resources>")

main_activity_content(namespace) ==
    Line("// Generated by osiris-platform")
    \o <<"package ">> \o namespace \o <<";", "\n">>
    \o Line("")
    \o Line("import androidx.appcompat.app.AppCompatActivity;")
    \o Line("")
    \o Line("import android.os.Bundle;")
    \o Line("")
    \o Line("public class MainActivity extends AppCompatActivity {")
    \o Line("    @Override")
    \o Line("    protected void onCreate(Bundle savedInstanceState) {")
    \o Line("        super.onCreate(savedInstanceState);")
    \o Line("        setContentView(R.layout.activity_main);")
    \o Line("    }")
    \o Line("}")

\* ------------------------------------------------------------------------
\* emerge: the operations on the file system, in program order
\* ------------------------------------------------------------------------

OpEnsureDir(path) == [op |-> "ensure_dir", path |-> path]

OpUpdateFile(path, content) == [op |-> "update_file", path |-> path, content |-> content]

OpUnlinkFile(path) == [op |-> "unlink_file", path |-> path]

\* A file name pushed onto a path buffer
push(path, name) == Append(path, <<name>>)

\* emerge_android_local_properties
emerge_android_local_properties(path, sdk_path) ==
    IF IsSome(sdk_path)
    THEN OpUpdateFile(push(path, "local.properties"), local_properties_content(sdk_path[1]))
    ELSE OpUnlinkFile(push(path, "local.properties"))

\* The directory of MainActivity.java
ns_path(path, namespace) == join(path, replace(namespace, ".", "/"))

\* emerge_android, "Unwrap required keys": the first missing key in the
\* order of the checks, or None.
emerge_android_missing(manifest, android) ==
    LET application == manifest.raw.application IN
    IF ~(IsSome(application) /\ IsSome(application[1].name))
        THEN Some("application.name")
    ELSE IF ~IsSome(application[1].id)
        THEN Some("application.id")
    ELSE IF ~IsSome(android.application_id)
        THEN Some("platform.android.application-id")
    ELSE IF ~IsSome(android.namespace)
        THEN Some("platform.android.namespace")
    ELSE IF ~IsSome(android.compile_sdk)
        THEN Some("platform.android.compile-sdk")
    ELSE IF ~IsSome(android.min_sdk)
        THEN Some("platform.android.min-sdk")
    ELSE IF ~IsSome(android.target_sdk)
        THEN Some("platform.android.target-sdk")
    ELSE IF ~IsSome(android.version_code)
        THEN Some("platform.android.version-code")
    ELSE IF ~IsSome(android.version_name)
        THEN Some("platform.android.version-name")
    ELSE None

\* emerge_android, "Create the persistent files": the sequence of file
\* operations issued for a manifest that has every required key.
emerge_android_files(manifest, android, path) ==
    LET manifest_application_name == manifest.raw.application[1].name[1]
        manifest_application_id == manifest.raw.application[1].id[1]
        manifest_android_namespace == android.namespace[1]
        src == push(path, "src")
        main == push(src, "main")
        res == push(main, "res")
        layout == push(res, "layout")
        values == push(res, "values")
        java == push(main, "java")
        ns == ns_path(java, manifest_android_namespace)
    IN <<
        OpUpdateFile(push(path, "gradle.properties"), gradle_properties_content),
        emerge_android_local_properties(path, android.sdk_path),
        OpUpdateFile(push(path, "settings.gradle"),
                     settings_gradle_content(manifest_application_id)),
        OpUpdateFile(push(path, "build.gradle"),
                     build_gradle_content(android.application_id[1],
                                          manifest_android_namespace,
                                          android.compile_sdk[1],
                                          android.min_sdk[1],
                                          android.target_sdk[1],
                                          android.version_code[1],
                                          android.version_name[1])),
        OpEnsureDir(src),
        OpEnsureDir(main),
        OpUpdateFile(push(main, "AndroidManifest.xml"),
                     android_manifest_content(manifest_application_id)),
        OpEnsureDir(res),
        OpEnsureDir(layout),
        OpUpdateFile(push(layout, "activity_main.xml"), activity_main_content),
        OpEnsureDir(values),
        OpUpdateFile(push(values, "strings.xml"),
                     strings_content(manifest_application_name)),
        OpUpdateFile(push(values, "themes.xml"),
                     themes_content(manifest_application_id)),
        OpEnsureDir(ns),
        OpUpdateFile(push(ns, "MainActivity.java"),
                     main_activity_content(manifest_android_namespace))
    >>

\* One file operation applied to the file system.
apply_op(f, o) ==
    IF o.op = "ensure_dir" THEN ensure_dir(f, o.path)
    ELSE IF o.op = "update_file" THEN update_file(f, o.path, o.content)
    ELSE unlink_file(f, o.path)

\* emerge, the check of the platform directory: the error it returns, or
\* the file system with which the emission continues.
emerge_directory_no_update_check(f, path, update) ==
    LET m == metadata(f, path) IN
    IF m.ok THEN
        IF m.val.kind # "dir" THEN Err(PlatformDirectory(path))
        ELSE Ok(f)
    ELSE IF m.err # "NotFound" THEN Err(PlatformDirectory(path))
    ELSE ensure_dir(f, path)

emerge_directory_no_dir_check(f, path, update) ==
    LET m == metadata(f, path) IN
    IF m.ok THEN
        IF ~update THEN Err(Already)
        ELSE Ok(f)
    ELSE IF m.err # "NotFound" THEN Err(PlatformDirectory(path))
    ELSE ensure_dir(f, path)

\* A variant of the directory check of emerge that takes an existing
\* directory for a conflict whether or not updates are allowed.
emerge_directory_ignore_update(f, path, update) ==
    LET m == metadata(f, path) IN
    IF m.ok THEN
        IF m.val.kind # "dir" THEN Err(PlatformDirectory(path))
        ELSE Err(Already)
    ELSE IF m.err # "NotFound" THEN Err(PlatformDirectory(path))
    ELSE ensure_dir(f, path)

emerge_directory(f, path, update) ==
    LET m == metadata(f, path) IN
    IF m.ok THEN
        IF m.val.kind # "dir" THEN Err(PlatformDirectory(path))
        ELSE IF ~update THEN Err(Already)
        ELSE Ok(f)
    ELSE IF m.err # "NotFound" THEN Err(PlatformDirectory(path))
    ELSE ensure_dir(f, path)

\* emerge, the choice of the platform directory
emerge_platform_path(platform, path_override) ==
    IF IsSome(path_override) THEN path_override[1] ELSE RawPlatform_path(platform)

\* ------------------------------------------------------------------------
\* Inputs: manifest documents
\* ------------------------------------------------------------------------

\* Number of runs of the command-line tool in a behaviour
MaxRuns == 2

\* Number of keys left out of a base manifest
MaxMissing == 1

FullApplication ==
    [id |-> Some(<<"app">>),
     name |-> Some(<<"My", " ", "App">>),
     path |-> Some(<<".">>),
     package |-> Some(<<"pkg">>)]

FullAndroid ==
    [application_id |-> Some(<<"com", ".", "example", ".", "app">>),
     namespace |-> Some(<<"com", ".", "example">>),
     compile_sdk |-> Some(34),
     min_sdk |-> Some(21),
     target_sdk |-> Some(33),
     ndk_level |-> Some(25),
     version_code |-> Some(7),
     version_name |-> Some(<<"1", ".", "0">>),
     sdk_path |-> Some(<<"/", "opt", "/", "sdk">>)]

RawPlatform(id, path, configuration) ==
    [id |-> id, path |-> path, configuration |-> configuration]

Raw(version, application, platform) ==
    [version |-> version, application |-> application, platform |-> platform]

AndroidId == <<"android">>

\* A manifest with one platform entry `android`
RawOf(application, android) ==
    Raw(1, Some(application), <<RawPlatform(AndroidId, None, Some(android))>>)

Without(rec, keys) == [k \in DOMAIN rec |-> IF k \in keys THEN None ELSE rec[k]]

\* The keys emerge reads, and `package`, which the command line requires
Keys == (DOMAIN FullApplication \cup DOMAIN FullAndroid) \ {"path", "ndk_level"}

\* The keys the minimal manifest leaves out
MinimalMissing ==
    {"name", "application_id", "target_sdk", "compile_sdk",
     "version_code", "version_name"}

\* version=1, application.id="app", application.package="pkg", one
\* platform "android" with namespace="com.example", min-sdk=21,
\* ndk-level=25, sdk-path="/opt/sdk"
MinimalRaw ==
    RawOf(Without(FullApplication, MinimalMissing), Without(FullAndroid, MinimalMissing))

FullRaw == RawOf(FullApplication, FullAndroid)

MissingSets ==
    {S \in SUBSET Keys : Cardinality(S) <= MaxMissing}
    \cup {MinimalMissing \cup S : S \in {X \in SUBSET Keys : Cardinality(X) <= MaxMissing}}

MissingRaws == {RawOf(Without(FullApplication, S), Without(FullAndroid, S)) : S \in MissingSets}

\* The working directory, as an absolute path string
CwdString == <<"/", "w">>

Namespaces ==
    {<<>>,
     <<"a">>,
     <<".", "x">>,
     CwdString \o <<"/", "platform", "/", "android", "/", "userdir">>,
     <<"com", "'", "x">>}

NamespaceRaws ==
    {RawOf(FullApplication, [FullAndroid EXCEPT !.namespace = Some(ns)]) : ns \in Namespaces}

InvalidRaws ==
    {[FullRaw EXCEPT !.version = 2],
     RawOf([FullApplication EXCEPT !.id = Some(<<>>)], FullAndroid),
     RawOf([FullApplication EXCEPT !.id = Some(<<"a", ".", "b">>)], FullAndroid),
     RawOf([FullApplication EXCEPT !.name = Some(<<"My", "\"", "App">>)], FullAndroid),
     RawOf(FullApplication, [FullAndroid EXCEPT !.sdk_path = Some(<<"/", "opt", "\n", "x">>)]),
     Raw(1, Some(FullApplication),
         <<RawPlatform(AndroidId, None, Some(FullAndroid)),
           RawPlatform(<<"other">>, None,
                       Some([FullAndroid EXCEPT !.namespace = Some(<<"\\">>)]))>>)}

StructureRaws ==
    {Raw(1, None, <<>>),
     Raw(1, Some(FullApplication), <<>>),
     Raw(1, None, <<RawPlatform(AndroidId, None, Some(FullAndroid))>>),
     Raw(1, Some(FullApplication), <<RawPlatform(AndroidId, None, None)>>),
     Raw(1, Some(FullApplication),
         <<RawPlatform(AndroidId, Some(<<".", "/", "out">>), Some(FullAndroid))>>),
     Raw(1, Some(FullApplication),
         <<RawPlatform(AndroidId, None, Some(FullAndroid)),
           RawPlatform(AndroidId, None,
                       Some([FullAndroid EXCEPT !.namespace = Some(<<"dup">>)]))>>),
     RawOf([FullApplication EXCEPT !.name = Some(<<"R", "&", "D">>)], FullAndroid)}

Raws == MissingRaws \cup NamespaceRaws \cup InvalidRaws \cup StructureRaws

\* The documents a run may read; None is unreadable or malformed text.
Docs == {None} \cup {Some(r) : r \in Raws}

\* The values of `--platform`
PlatformArgs == {AndroidId, <<"ios">>}

\* ------------------------------------------------------------------------
\* Inputs: the file system before the first run
\* ------------------------------------------------------------------------

\* The default platform directory of platform `android`
Target == resolve(RawPlatform_path(RawPlatform(AndroidId, None, None)))

UserContent == <<"user">>

\* The file system that holds the directories `dirs` and the files `files`
\* (pairs of a path and a content) and all their ancestors.
FsOf(dirs, files) ==
    LET filePaths == {e[1] : e \in files}
        dirPaths == {<<>>} \cup UNION {Prefixes(d) : d \in dirs}
                           \cup UNION {ProperPrefixes(p) : p \in filePaths}
    IN [p \in dirPaths \cup filePaths |->
            IF p \in filePaths
            THEN File((CHOOSE e \in files : e[1] = p)[2], 0)
            ELSE Dir]

FsAbsent == FsOf({Cwd}, {})

FsNotADirectory == FsOf({Cwd}, {<<Target, UserContent>>})

FsEmpty == FsOf({Target}, {})

FsUser ==
    FsOf({Target},
         {<<push(Target, "notes.txt"), UserContent>>,
          <<push(Target, "local.properties"), <<"sdk.dir=", "/", "old", "\n">> >>,
          <<push(Target, "build.gradle"), <<"// old", "\n">> >>,
          <<push(push(Target, "userdir"), "MainActivity.java"), UserContent>>,
          <<push(<< <<"x">> >>, "MainActivity.java"), UserContent>>})

FsBlocked == FsOf({Target}, {<<push(Target, "src"), UserContent>>})

\* local.properties is a directory: it can neither be removed with
\* remove_file nor opened as a file.
FsLocalPropertiesDir == FsOf({push(Target, "local.properties")}, {})

\* strings.xml is a directory
FsStringsDir ==
    FsOf({push(push(push(push(push(Target, "src"), "main"), "res"), "values"),
               "strings.xml")},
         {<<push(Target, "settings.gradle"), <<"// old", "\n">> >>,
          <<push(push(push(push(push(Target, "src"), "main"), "res"), "values"),
                 "themes.xml"), UserContent>>})

InitFs ==
    {FsAbsent, FsNotADirectory, FsEmpty, FsUser, FsBlocked, FsLocalPropertiesDir,
     FsStringsDir}

\* ------------------------------------------------------------------------
\* State
\* ------------------------------------------------------------------------

VARIABLES
    fs,         \* the file system
    pc,         \* position of the running command
    input,      \* Option: the document the run has read
    raw,        \* Option: the parsed document
    manifest,   \* Option: the validated manifest
    platform,   \* Option: the selected platform entry
    call,       \* Option: the arguments of the call of emerge
    files,      \* the file operations emerge_android has yet to issue
    result,     \* Option: the result of emerge
    code,       \* Option: the exit code of the process
    pre,        \* the file system when the run started
    trace,      \* the stages the run went through
    runs,       \* number of finished runs
    last,       \* Option: what the previous run did
    argv,       \* Option: the matches of the command line
    cargo,      \* Option: the metadata cargo has reported
    path_platform,  \* Option: the directory build hands to the build tool
    tool,       \* the invocations of the build tool, with their outcomes
    outcome     \* Option: the result of build

\* The state of the build operation
buildVars == <<argv, cargo, path_platform, tool, outcome>>

vars == <<fs, pc, input, raw, manifest, platform, call, files, result, code, pre,
          trace, runs, last, buildVars>>

Init ==
    /\ fs \in InitFs
    /\ pc = "start"
    /\ input = None
    /\ raw = None
    /\ manifest = None
    /\ platform = None
    /\ call = None
    /\ files = <<>>
    /\ result = None
    /\ code = None
    /\ pre = fs
    /\ trace = <<>>
    /\ runs = 0
    /\ last = None
    /\ argv = None
    /\ cargo = None
    /\ path_platform = None
    /\ tool = <<>>
    /\ outcome = None

\* Cli::manifest fails: the error is printed and the process exits with 1.
Fail(stage) ==
    /\ pc' = "exit"
    /\ code' = Some(1)
    /\ trace' = Append(trace, stage)

\* Manifest::parse_path, first half: read and deserialize the document.
Parse(doc) ==
    /\ pc = "start"
    /\ runs < MaxRuns
    /\ LET r == Raw_parse_str(doc) IN
       IF r.ok
       THEN /\ raw' = Some(r.val)
            /\ pc' = "validate"
            /\ trace' = Append(trace, "parse")
            /\ UNCHANGED code
       ELSE /\ Fail("parse")
            /\ UNCHANGED raw
    /\ input' = Some(doc)
    /\ UNCHANGED <<fs, manifest, platform, call, files, result, pre, runs, last>>
    /\ UNCHANGED buildVars

\* Manifest::parse_path, second half: Manifest::parse_raw.
Validate ==
    /\ pc = "validate"
    /\ LET r == parse_raw(raw[1]) IN
       IF r.ok
       THEN /\ manifest' = Some(r.val)
            /\ pc' = "resolve"
            /\ trace' = Append(trace, "validate")
            /\ UNCHANGED code
       ELSE /\ Fail("validate")
            /\ UNCHANGED manifest
    /\ UNCHANGED <<input, fs, raw, platform, call, files, result, pre, runs, last>>
    /\ UNCHANGED buildVars

\* Cli::manifest: the view of the application.
Resolve ==
    /\ pc = "resolve"
    /\ LET r == view_application(manifest[1].raw) IN
       IF r.ok
       THEN /\ pc' = "platform"
            /\ trace' = Append(trace, "resolve")
            /\ UNCHANGED code
       ELSE Fail("resolve")
    /\ UNCHANGED <<input, fs, raw, manifest, platform, call, files, result, pre, runs, last>>
    /\ UNCHANGED buildVars

\* Cli::platform
SelectPlatform(id) ==
    /\ pc = "platform"
    /\ LET r == platform_by_id(manifest[1].raw, id) IN
       IF IsSome(r)
       THEN /\ platform' = r
            /\ pc' = "emerge"
            /\ trace' = Append(trace, "platform")
            /\ UNCHANGED code
       ELSE /\ Fail("platform")
            /\ UNCHANGED platform
    /\ UNCHANGED <<input, fs, raw, manifest, call, files, result, pre, runs, last>>
    /\ UNCHANGED buildVars

\* emerge returns: Cli::op_emerge maps the result to the exit code.
Return(r) ==
    /\ result' = Some(r)
    /\ code' = Some(IF r.ok THEN 0 ELSE 1)
    /\ pc' = "exit"

\* emerge, up to the first file operation of emerge_android.
Emerge(update) ==
    /\ pc = "emerge"
    /\ LET path == resolve(emerge_platform_path(platform[1], None))
           d == emerge_directory(fs, path, update)
           android == platform[1].configuration
       IN
       /\ call' = Some([path |-> path, update |-> update])
       /\ trace' = Append(trace, "emit")
       /\ IF ~d.ok
          THEN /\ Return(d)
               /\ UNCHANGED <<fs, files>>
          ELSE /\ fs' = d.val
               /\ IF ~IsSome(android)
                  THEN /\ Return(Ok(<<>>))
                       /\ UNCHANGED files
                  ELSE LET missing == emerge_android_missing(manifest[1], android[1]) IN
                       IF IsSome(missing)
                       THEN /\ Return(Err(ManifestKey(missing[1])))
                            /\ UNCHANGED files
                       ELSE /\ files' = emerge_android_files(manifest[1], android[1], path)
                            /\ pc' = "files"
                            /\ UNCHANGED <<result, code>>
    /\ UNCHANGED <<input, raw, manifest, platform, pre, runs, last>>
    /\ UNCHANGED buildVars

\* A variant of the step of emerge_android that goes on with the next
\* operation when one fails, as if the `?` were missing.
EmergeFile_keep_going ==
    /\ pc = "files"
    /\ LET r == apply_op(fs, Head(files)) IN
       /\ fs' = IF r.ok THEN r.val ELSE fs
       /\ files' = Tail(files)
       /\ IF Len(files) = 1
          THEN Return(IF r.ok THEN Ok(<<>>) ELSE r)
          ELSE UNCHANGED <<pc, result, code>>
    /\ UNCHANGED <<input, raw, manifest, platform, call, pre, trace, runs, last>>
    /\ UNCHANGED buildVars

\* emerge_android: the next file operation.
EmergeFile ==
    /\ pc = "files"
    /\ LET r == apply_op(fs, Head(files)) IN
       IF ~r.ok
       THEN /\ Return(r)
            /\ UNCHANGED <<fs, files>>
       ELSE /\ fs' = r.val
            /\ files' = Tail(files)
            /\ IF Len(files) = 1
               THEN Return(Ok(<<>>))
               ELSE UNCHANGED <<pc, result, code>>
    /\ UNCHANGED <<input, raw, manifest, platform, call, pre, trace, runs, last>>
    /\ UNCHANGED buildVars

\* main: the process exits; the next run starts from the file system it left.
Exit ==
    /\ pc = "exit"
    /\ pc' = "start"
    /\ runs' = runs + 1
    /\ last' = IF IsSome(result) /\ result[1].ok
               THEN Some([raw |-> raw[1], platform |-> platform[1],
                          path |-> call[1].path,
                          fresh |-> call[1].path \notin DOMAIN pre])
               ELSE None
    /\ input' = None
    /\ raw' = None
    /\ manifest' = None
    /\ platform' = None
    /\ call' = None
    /\ files' = <<>>
    /\ result' = None
    /\ code' = None
    /\ pre' = fs
    /\ trace' = <<>>
    /\ UNCHANGED fs
    /\ UNCHANGED buildVars

Next ==
    \/ \E doc \in Docs : Parse(doc)
    \/ Validate
    \/ Resolve
    \/ \E id \in PlatformArgs : SelectPlatform(id)
    \/ \E update \in BOOLEAN : Emerge(update)
    \/ EmergeFile
    \/ Exit

Spec == Init /\ [][Next]_vars

\* ------------------------------------------------------------------------
\* The manifest on its own: a document is parsed and validated, and the
\* views of the validated manifest are resolved (as build_android does).
\* ------------------------------------------------------------------------

\* Length of the strings tried in a field
MaxLen == 2

\* The characters of the strings: every special character and a word
Chars == SpecialChars \cup {"a"}

RECURSIVE StringsOf(_)
StringsOf(n) ==
    IF n = 0 THEN {<<>>}
    ELSE LET S == StringsOf(n - 1) IN S \cup {Append(s, c) : s \in S, c \in Chars}

Strings == StringsOf(MaxLen)

OtherId == <<"other">>

\* A manifest with an entry `android` followed by an entry `other`
TwoPlatforms(application, first, second) ==
    Raw(1, Some(application),
        <<RawPlatform(AndroidId, None, Some(first)),
          RawPlatform(OtherId, None, Some(second))>>)

\* The string fields of the application table and of an Android table
ApplicationFields == {"id", "name", "path", "package"}

AndroidFields == {"application_id", "namespace", "version_name", "sdk_path"}

\* The full manifest with string s in one field of the application table
\* (k = 0) or of the Android table of entry k
FieldRaw(key, k, s) ==
    IF k = 0 THEN TwoPlatforms([FullApplication EXCEPT ![key] = Some(s)], FullAndroid, FullAndroid)
    ELSE IF k = 1 THEN TwoPlatforms(FullApplication, [FullAndroid EXCEPT ![key] = Some(s)], FullAndroid)
    ELSE TwoPlatforms(FullApplication, FullAndroid, [FullAndroid EXCEPT ![key] = Some(s)])

\* The integers tried as `version`
Versions == {-1, 0, 1, 2, 12345678, 2147483647}

VersionRaws ==
    {[r EXCEPT !.version = v] : r \in {FullRaw, MinimalRaw} \cup InvalidRaws, v \in Versions}

\* The application tables tried: none, or the full one without some keys
Applications ==
    {None} \cup {Some(Without(FullApplication, S)) : S \in SUBSET {"id", "name", "path", "package"}}

\* The manifest with one platform entry whose Android table lacks the keys S
PresenceRaw(application, S) ==
    Raw(1, application, <<RawPlatform(AndroidId, None, Some(Without(FullAndroid, S)))>>)

\* The SDK levels tried
SdkLevels == {21, 33, 34}

OptSdk == {None} \cup {Some(v) : v \in SdkLevels}

\* The full manifest with the three SDK levels as given
SdkRaw(min, tar, com) ==
    RawOf(FullApplication,
          [FullAndroid EXCEPT !.min_sdk = min, !.target_sdk = tar, !.compile_sdk = com])

ViewInit == Init /\ fs = FsAbsent

\* build_android: the view of the application
ViewApplication ==
    /\ pc = "resolve"
    /\ result' = Some(view_application(manifest[1].raw))
    /\ pc' = "view_application"
    /\ UNCHANGED <<input, fs, raw, manifest, platform, call, files, code, pre, trace, runs, last>>
    /\ UNCHANGED buildVars

\* build_android: the view of the Android configuration of entry i
ViewAndroid(i) ==
    /\ pc = "resolve"
    /\ i \in 1..Len(manifest[1].raw.platform)
    /\ LET android == RawPlatform_android(manifest[1].raw.platform[i]) IN
       /\ IsSome(android)
       /\ platform' = Some(manifest[1].raw.platform[i])
       /\ result' = Some(RawPlatformAndroid_view(android[1], manifest[1].raw))
    /\ pc' = "view_android"
    /\ UNCHANGED <<input, fs, raw, manifest, call, files, code, pre, trace, runs, last>>
    /\ UNCHANGED buildVars

\* Manifest::parse_path on one of the documents: an unreadable or
\* malformed one, the full manifest with a string in one field, a manifest
\* with some version, a manifest with keys left out, the full manifest with
\* some SDK levels.
ViewParse ==
    /\ pc = "start"
    /\ \/ Parse(None)
       \/ \E key \in ApplicationFields, s \in Strings : Parse(Some(FieldRaw(key, 0, s)))
       \/ \E key \in AndroidFields, k \in {1, 2}, s \in Strings :
              Parse(Some(FieldRaw(key, k, s)))
       \/ \E r \in VersionRaws : Parse(Some(r))
       \/ \E application \in Applications, S \in SUBSET DOMAIN FullAndroid :
              Parse(Some(PresenceRaw(application, S)))
       \/ \E min \in OptSdk, tar \in OptSdk, com \in OptSdk :
              Parse(Some(SdkRaw(min, tar, com)))

ViewNext ==
    \/ ViewParse
    \/ Validate
    \/ ViewApplication
    \/ \E i \in {1, 2} : ViewAndroid(i)

ViewSpec == ViewInit /\ [][ViewNext]_vars

\* ------------------------------------------------------------------------
\* Properties
\* ------------------------------------------------------------------------

\* emerge has been called in the current run
Called == IsSome(call)

\* emerge has returned in the current run
Returned == pc = "exit" /\ IsSome(result)

\* The Android configuration of the selected platform, if any
SelectedAndroid == IF IsSome(platform) THEN platform[1].configuration ELSE None

\* C1: when the target directory already exists as a directory and emerge
\* is called with update=false, emerge returns Error::Already and the file
\* system after the call is the file system before it.
C1_Exclusive ==
    (Called /\ ~call[1].update /\ IsDir(pre, call[1].path)) =>
        /\ pc = "exit"
        /\ result = Some(Err(Already))
        /\ fs = pre

C1_Witness ==
    /\ Returned
    /\ ~call[1].update
    /\ IsDir(pre, call[1].path)
    /\ \E p \in DOMAIN pre : IsFile(pre, p) /\ IsPrefix(call[1].path, p)
    /\ result[1] = Err(Already)

\* C2: when the target path exists but is not a directory, emerge fails with
\* Error::PlatformDirectory carrying that path, whatever the value of
\* update, and leaves the file system unchanged.
C2_NotADirectory ==
    (Called /\ IsFile(pre, call[1].path)) =>
        /\ pc = "exit"
        /\ result = Some(Err(PlatformDirectory(call[1].path)))
        /\ fs = pre

C2_Witness ==
    /\ Returned
    /\ call[1].update
    /\ IsFile(pre, call[1].path)
    /\ result[1].err.kind = "PlatformDirectory"

\* The second of two calls of emerge on the same target with the same
\* manifest, the first having succeeded into an absent directory, the
\* second with update=true.
Repeated ==
    /\ Called
    /\ call[1].update
    /\ IsSome(last)
    /\ last[1].fresh
    /\ last[1].raw = raw[1]
    /\ last[1].platform = platform[1]
    /\ last[1].path = call[1].path

\* C4: if emerge succeeds into an absent directory and is called again on
\* the same target with update=true and the same manifest, the second call
\* succeeds and no file is written: every node of the file system, its
\* modification time included, is as it was before the second call.
C4_Idempotent ==
    Repeated =>
        /\ fs = pre
        /\ pc = "exit" => result[1].ok

C4_Witness ==
    /\ Repeated
    /\ Returned
    /\ result[1].ok
    /\ IsSome(SelectedAndroid)
    /\ IsFile(fs, push(call[1].path, "build.gradle"))
    /\ fs[push(call[1].path, "build.gradle")].mtime = 1

\* The step from the current state is a call of update_file that succeeds.
UpdateFileStep ==
    /\ pc = "files"
    /\ Head(files).op = "update_file"
    /\ files' = Tail(files)

\* C5: update_file(path, content) truncates and writes the file only when
\* the existing content differs from content, a missing file being created
\* and read as empty; when the existing content equals content no write is
\* performed and the modification time is unchanged; in both cases the file
\* holds content afterwards, and no other path is touched.
C5_ContentDiffed ==
    [][UpdateFileStep =>
        LET path == Head(files).path
            content == Head(files).content
            old == IF path \in DOMAIN fs THEN fs[path].content ELSE <<>>
            mtime == IF path \in DOMAIN fs THEN fs[path].mtime ELSE 0
        IN /\ IsFile(fs', path)
           /\ fs'[path].content = content
           /\ old = content => fs'[path].mtime = mtime
           /\ old # content => fs'[path].mtime = mtime + 1
           /\ DOMAIN fs' = DOMAIN fs \cup {path}
           /\ \A q \in DOMAIN fs : q # path => fs'[q] = fs[q]
    ]_vars

\* A file written by an earlier update_file is about to be updated with
\* the content it holds.
C5_Witness ==
    /\ pc = "files"
    /\ Head(files).op = "update_file"
    /\ IsFile(fs, Head(files).path)
    /\ fs[Head(files).path].content = Head(files).content
    /\ fs[Head(files).path].mtime = 1

\* The files of an Android platform, by the paths relative to the target
\* directory, with the template contents for the keys of the manifest.
ExpectedFiles(path, m, android) ==
    LET appid == m.raw.application[1].id[1]
        main == push(push(path, "src"), "main")
        res == push(main, "res")
        java == push(main, "java") \o components(replace(android.namespace[1], ".", "/"))
    IN {<<push(path, "gradle.properties"), gradle_properties_content>>,
        <<push(path, "settings.gradle"), settings_gradle_content(appid)>>,
        <<push(path, "build.gradle"),
          build_gradle_content(android.application_id[1], android.namespace[1],
                               android.compile_sdk[1], android.min_sdk[1],
                               android.target_sdk[1], android.version_code[1],
                               android.version_name[1])>>,
        <<push(main, "AndroidManifest.xml"), android_manifest_content(appid)>>,
        <<push(push(res, "layout"), "activity_main.xml"), activity_main_content>>,
        <<push(push(res, "values"), "strings.xml"),
          strings_content(m.raw.application[1].name[1])>>,
        <<push(push(res, "values"), "themes.xml"), themes_content(appid)>>,
        <<push(java, "MainActivity.java"), main_activity_content(android.namespace[1])>>}

\* C3: when the target directory is absent, emerge creates it and goes on;
\* with update=false emerge succeeds only from the absent state; after a
\* successful emerge of an Android platform the target tree holds the eight
\* generated files, MainActivity.java at src/main/java/<namespace with `.`
\* replaced by `/`>, each with its template content.
C3_AbsentThenWritten ==
    /\ (Called /\ metadata(pre, call[1].path) = Err("NotFound")) =>
            /\ IsDir(fs, call[1].path)
            /\ Returned => result[1] \notin {Err(Already), Err(PlatformDirectory(call[1].path))}
    /\ (Returned /\ result[1].ok /\ ~call[1].update) => call[1].path \notin DOMAIN pre
    /\ (Returned /\ result[1].ok /\ IsSome(SelectedAndroid)) =>
            \A e \in ExpectedFiles(call[1].path, manifest[1], SelectedAndroid[1]) :
                IsFile(fs, e[1]) /\ fs[e[1]].content = e[2]

RECURSIVE lines(_, _, _)
lines(content, i, cur) ==
    IF i > Len(content) THEN (IF cur = <<>> THEN <<>> ELSE <<cur>>)
    ELSE IF content[i] = "\n" THEN <<cur>> \o lines(content, i + 1, <<>>)
    ELSE lines(content, i + 1, Append(cur, content[i]))

HasLine(content, line) ==
    \E i \in 1..Len(lines(content, 1, <<>>)) : lines(content, 1, <<>>)[i] = line

\* C6: for the minimal manifest (version=1, application.id="app",
\* application.package="pkg", platform "android" with namespace
\* "com.example", min-sdk=21, ndk-level=25, sdk-path="/opt/sdk"), emitting
\* the platform into an absent directory succeeds with the defaulted values
\* (application id "app", SDK triple (21,21,21), version code 1, version
\* name "0.1.0") and produces local.properties with the line
\* sdk.dir=/opt/sdk.
C6_EndToEnd ==
    (Returned /\ raw = Some(MinimalRaw) /\ platform[1].id = AndroidId
              /\ call[1].path \notin DOMAIN pre) =>
        /\ result[1].ok
        /\ IsFile(fs, push(call[1].path, "local.properties"))
        /\ HasLine(fs[push(call[1].path, "local.properties")].content,
                   <<"sdk.dir=", "/", "opt", "/", "sdk">>)
        /\ IsFile(fs, push(call[1].path, "build.gradle"))
        /\ fs[push(call[1].path, "build.gradle")].content =
              build_gradle_content(<<"app">>, <<"com", ".", "example">>, 21, 21, 21, 1,
                                   <<"0", ".", "1", ".", "0">>)

\* The keys that name the namespace of the Android configuration
NamespaceKeys == {".namespace", "platform.android.namespace"}

\* C7: when the selected platform has an Android configuration without
\* namespace, the operation fails with a missing-key error that names the
\* namespace, and no file has been written when it does.  (Stated for
\* calls that find the target directory absent, so that no other error of
\* emerge comes first.)
C7_MissingNamespace ==
    (Returned /\ IsSome(SelectedAndroid) /\ ~IsSome(SelectedAndroid[1].namespace)
              /\ call[1].path \notin DOMAIN pre) =>
        /\ ~result[1].ok
        /\ result[1].err.kind = "ManifestKey"
        /\ result[1].err.key \in NamespaceKeys
        /\ \A p \in DOMAIN fs : IsFile(fs, p) => p \in DOMAIN pre /\ fs[p] = pre[p]

\* The paths emerge generates in a target directory: the four files at its
\* top and everything under src.
Generated(path, p) ==
    \/ p \in {push(path, "gradle.properties"), push(path, "local.properties"),
              push(path, "settings.gradle"), push(path, "build.gradle")}
    \/ IsPrefix(push(path, "src"), p)

\* C8: emerge with update=true into an existing directory leaves every
\* existing file and directory whose path is not a generated path
\* unchanged in existence and content.
C8_UserFilesPreserved ==
    (Called /\ call[1].update /\ IsDir(pre, call[1].path)) =>
        \A p \in DOMAIN pre :
            ~Generated(call[1].path, p) => p \in DOMAIN fs /\ fs[p] = pre[p]

\* C9: every file or directory emerge creates, writes or removes lies under
\* the target directory (the target directory and the ancestors it is
\* created with aside), for every manifest the validator accepts.
C9_UnderTarget ==
    Called =>
        \A p \in DOMAIN pre \cup DOMAIN fs :
            (p \notin DOMAIN pre \/ p \notin DOMAIN fs \/ pre[p] # fs[p]) =>
                IsPrefix(call[1].path, p) \/ IsPrefix(p, call[1].path)

\* The stages of a run, in program order
Stages == <<"parse", "validate", "resolve", "platform", "emit">>

\* C10: the stages of a run occur in the order parse, validate, resolve,
\* emit; emerge is invoked only after the document has been parsed and
\* validated in that run (so only on a version-1 manifest whose fields
\* pass the checks); nothing is written before emerge is invoked, and a run
\* that fails to parse or validate exits with 1 and no write.
C10_Lifecycle ==
    /\ IsPrefix(trace, Stages)
    /\ Called =>
          /\ trace = Stages
          /\ IsSome(raw)
          /\ manifest = Some([raw |-> raw[1]])
          /\ raw[1].version = 1
          /\ parse_raw_fields(raw[1]).ok
          /\ view_application(raw[1]).ok
    /\ ~Called => fs = pre
    /\ (pc = "exit" /\ ~IsSome(manifest)) => (~Called /\ code = Some(1))

C10_Witness ==
    /\ Returned
    /\ result[1].ok
    /\ trace = Stages
    /\ fs # pre

\* ------------------------------------------------------------------------
\* Properties of the manifest on its own (ViewSpec)
\* ------------------------------------------------------------------------

\* The run has read a document that is a table of the shape of a manifest
\* with an integer `version`
ReadTable == IsSome(input) /\ IsSome(input[1])

\* The raw parser has accepted the document
Parsed == IsSome(raw)

\* Validation has accepted the raw manifest
Validated == IsSome(manifest)

\* Validation has rejected the raw manifest
Rejected == pc = "exit" /\ IsSome(raw) /\ ~IsSome(manifest)

\* The characters a quotable field may not hold
Unquotable == {"\"", "'", "\\", "\n", "\t"}

\* The control characters
Control == {"\n", "\t"}

\* Strings as the specification describes the valid ones
ValidIdentifier(s) ==
    s # <<>> /\ \A i \in 1..Len(s) : s[i] \in {"-", "_"} \/ s[i] \notin SpecialChars

ValidQuotable(s) == \A i \in 1..Len(s) : s[i] \notin Unquotable

ValidSdkPath(s) == \A i \in 1..Len(s) : s[i] \notin Control

\* The Android tables of the platform entries of a raw manifest
AndroidTables(r) ==
    {r.platform[i].configuration[1] :
        i \in {j \in 1..Len(r.platform) : IsSome(r.platform[j].configuration)}}

\* The values of the fields that are interpolated between quotes: the
\* application name and the application-id, namespace and version-name of
\* every Android table
QuotedValues(r) ==
    (IF IsSome(r.application) /\ IsSome(r.application[1].name)
     THEN {r.application[1].name[1]} ELSE {})
    \cup UNION {{f[1] : f \in {a.application_id, a.namespace, a.version_name} \ {None}} :
                   a \in AndroidTables(r)}

\* The values of sdk-path of the Android tables
SdkPaths(r) == {a.sdk_path[1] : a \in {b \in AndroidTables(r) : IsSome(b.sdk_path)}}

\* The application.id, if any, is a valid identifier
IdValid(r) ==
    (IsSome(r.application) /\ IsSome(r.application[1].id)) =>
        ValidIdentifier(r.application[1].id[1])

\* The fields of a raw manifest other than the version are valid
NoViolation(r) ==
    /\ IdValid(r)
    /\ \A s \in QuotedValues(r) : ValidQuotable(s)
    /\ \A s \in SdkPaths(r) : ValidSdkPath(s)

\* Validation accepts a raw manifest of version 1 without other violation
\* and rejects every raw manifest of another version.
VersionGate ==
    /\ (Parsed /\ pc # "validate" /\ raw[1].version = 1 /\ NoViolation(raw[1])) => Validated
    /\ (Parsed /\ pc # "validate" /\ raw[1].version # 1) => Rejected

Decided == Validated \/ Rejected

\* The raw manifest has an application.id
HasId == IsSome(raw[1].application) /\ IsSome(raw[1].application[1].id)

\* The raw manifest with the application.id taken out
WithoutId(r) ==
    IF IsSome(r.application)
    THEN [r EXCEPT !.application = Some([r.application[1] EXCEPT !.id = None])]
    ELSE r

\* C12: validation rejects a manifest whose application.id is empty or
\* holds a character other than an alphanumeric, `-` or `_`; it accepts
\* every application.id that is non-empty and made of those characters
\* only, and an absent application.id, when the manifest has version 1 and
\* its other fields are valid.
C12_Identifier ==
    Decided =>
        /\ (HasId /\ ~ValidIdentifier(raw[1].application[1].id[1])) => Rejected
        /\ (HasId /\ ValidIdentifier(raw[1].application[1].id[1])
                  /\ raw[1].version = 1 /\ NoViolation(WithoutId(raw[1]))) => Validated
        /\ (~HasId /\ raw[1].version = 1 /\ NoViolation(raw[1])) => Validated

C12_Witness ==
    /\ Rejected
    /\ HasId
    /\ raw[1].application[1].id[1] = <<>>
    /\ raw[1].version = 1
    /\ NoViolation(WithoutId(raw[1]))

\* C13: validation rejects a manifest if application.name, or the
\* application-id, namespace or version-name of the Android table of any
\* platform entry, holds a double quote, a single quote, a backslash or a
\* control character, and accepts every other value of these fields (the
\* version being 1 and the other fields valid); so none of these fields of
\* a validated Manifest holds such a character.
C13_Quotable ==
    /\ Decided =>
        /\ (\E s \in QuotedValues(raw[1]) : \E i \in 1..Len(s) : s[i] \in Unquotable) => Rejected
        /\ (/\ \A s \in QuotedValues(raw[1]) : \A i \in 1..Len(s) : s[i] \notin Unquotable
            /\ raw[1].version = 1
            /\ IdValid(raw[1])
            /\ \A s \in SdkPaths(raw[1]) : ValidSdkPath(s)) => Validated
    /\ Validated =>
        \A s \in QuotedValues(manifest[1].raw) : \A i \in 1..Len(s) : s[i] \notin Unquotable

\* An entry other than the first is the only one with an unquotable value.
C13_Witness ==
    /\ Rejected
    /\ raw[1].version = 1
    /\ Len(raw[1].platform) = 2
    /\ raw[1].platform[2].configuration[1].version_name = Some(<<"a", "'">>)
    /\ NoViolation([raw[1] EXCEPT !.platform = <<raw[1].platform[1]>>])

ViewedAndroid == pc = "view_android"

\* The Android table the view was resolved from
Viewed == platform[1].configuration[1]

\* The namespace and an application ID are there, so that the resolution
\* gets as far as the SDK triple
ReachesSdk ==
    /\ IsSome(Viewed.namespace)
    /\ IsSome(Viewed.application_id) \/ HasId

\* <<min, target, compile>> of a resolved view
Triple(v) == <<v.min_sdk, v.target_sdk, v.compile_sdk>>

\* The precedence table, row by row: `-` is <<>>
SdkTable(min, tar, com) ==
    CASE min = <<>> /\ tar = <<>> /\ com = <<>> -> <<>>
      [] min # <<>> /\ tar = <<>> /\ com = <<>> -> <<min[1], min[1], min[1]>>
      [] min = <<>> /\ tar # <<>> /\ com = <<>> -> <<tar[1], tar[1], tar[1]>>
      [] min = <<>> /\ tar = <<>> /\ com # <<>> -> <<com[1], com[1], com[1]>>
      [] min # <<>> /\ tar # <<>> /\ com = <<>> -> <<min[1], tar[1], tar[1]>>
      [] min # <<>> /\ tar = <<>> /\ com # <<>> -> <<min[1], com[1], com[1]>>
      [] min = <<>> /\ tar # <<>> /\ com # <<>> -> <<tar[1], tar[1], com[1]>>
      [] min # <<>> /\ tar # <<>> /\ com # <<>> -> <<min[1], tar[1], com[1]>>

\* C15: RawPlatformAndroid::view resolves (min, target, compile) by the
\* table: none given is the error MissingKey(".min-sdk") (once namespace
\* and application ID are there); otherwise a resolved view holds the row
\* of the table for the three given values, whatever the other fields are,
\* and the three values never make the resolution fail.
C15_SdkTable ==
    ViewedAndroid =>
        LET row == SdkTable(Viewed.min_sdk, Viewed.target_sdk, Viewed.compile_sdk) IN
        /\ (ReachesSdk /\ row = <<>>) => result[1] = Err(MissingKey(".min-sdk"))
        /\ result[1].ok => Triple(result[1].val) = row
        /\ (ReachesSdk /\ row # <<>> /\ IsSome(Viewed.ndk_level) /\ IsSome(Viewed.sdk_path))
              => result[1].ok

C15_Witness ==
    /\ ViewedAndroid
    /\ result[1].ok
    /\ Viewed.min_sdk = None
    /\ Viewed.target_sdk = Some(21)
    /\ Viewed.compile_sdk = Some(34)
    /\ Triple(result[1].val) = <<21, 21, 34>>

\* C16: every successfully resolved SDK triple satisfies
\* min_sdk <= target_sdk <= compile_sdk, for each of the presence
\* combinations and every choice of the given values.
C16_SdkOrdered ==
    (ViewedAndroid /\ result[1].ok) =>
        /\ result[1].val.min_sdk <= result[1].val.target_sdk
        /\ result[1].val.target_sdk <= result[1].val.compile_sdk

\* The required fields of the Android view in the order of the claim, each
\* with its key and with whether it is missing
RequiredInOrder ==
    <<[key |-> ".namespace", missing |-> Viewed.namespace = None],
      [key |-> ".application-id", missing |-> Viewed.application_id = None /\ ~HasId],
      [key |-> ".min-sdk",
       missing |-> Viewed.min_sdk = None /\ Viewed.target_sdk = None
                   /\ Viewed.compile_sdk = None],
      [key |-> ".ndk-level", missing |-> Viewed.ndk_level = None],
      [key |-> ".sdk-path", missing |-> Viewed.sdk_path = None]>>

\* The positions of the missing required fields
MissingAt == {i \in 1..Len(RequiredInOrder) : RequiredInOrder[i].missing}

\* C17: RawPlatformAndroid::view checks namespace, application-id (the
\* platform value or application.id), the SDK triple (min-sdk), ndk-level
\* and sdk-path in this order and returns the MissingKey of the first that
\* is missing, a single key; it succeeds exactly when none is missing.
C17_FirstMissing ==
    ViewedAndroid =>
        /\ result[1].ok <=> MissingAt = {}
        /\ \A i \in MissingAt :
              (\A j \in MissingAt : i <= j) =>
                  result[1] = Err(MissingKey(RequiredInOrder[i].key))

\* Two required fields are missing and the error names the earlier one.
C17_Witness ==
    /\ ViewedAndroid
    /\ MissingAt = {4, 5}
    /\ result[1] = Err(MissingKey(".ndk-level"))

ViewedApplication == pc = "view_application"

\* C19: the view of the application fails with MissingKey("application")
\* without the application table, with MissingKey(".id") without id
\* (whether or not package is there) and with MissingKey(".package")
\* without package; otherwise it succeeds with name the given name or else
\* the id, path the given path or else ".", and id and package as given.
C19_ViewApplication ==
    ViewedApplication =>
        IF raw[1].application = None THEN result[1] = Err(MissingKey("application"))
        ELSE LET app == raw[1].application[1] IN
             IF app.id = None THEN result[1] = Err(MissingKey(".id"))
             ELSE IF app.package = None THEN result[1] = Err(MissingKey(".package"))
             ELSE /\ result[1].ok
                  /\ result[1].val.id = app.id[1]
                  /\ result[1].val.package = app.package[1]
                  /\ result[1].val.name = (IF app.name = None THEN app.id[1] ELSE app.name[1])
                  /\ result[1].val.path = (IF app.path = None THEN <<".">> ELSE app.path[1])

\* Neither id nor package is there and the error names the id.
C19_Witness ==
    /\ ViewedApplication
    /\ IsSome(raw[1].application)
    /\ raw[1].application[1].id = None
    /\ raw[1].application[1].package = None
    /\ result[1] = Err(MissingKey(".id"))

\* C20: a resolved ViewPlatformAndroid has the version_code of the
\* manifest or else 1 and the version_name of the manifest or else
\* "0.1.0"; the resolution succeeds whenever no required field is missing,
\* and none of its errors names a version key.
C20_VersionDefaults ==
    ViewedAndroid =>
        /\ result[1].ok =>
              /\ result[1].val.version_code =
                    (IF Viewed.version_code = None THEN 1 ELSE Viewed.version_code[1])
              /\ result[1].val.version_name =
                    (IF Viewed.version_name = None
                     THEN <<"0", ".", "1", ".", "0">> ELSE Viewed.version_name[1])
        /\ MissingAt = {} => result[1].ok
        /\ ~result[1].ok => result[1].err.key \notin {".version-code", ".version-name"}

C20_Witness ==
    /\ ViewedAndroid
    /\ result[1].ok
    /\ Viewed.version_code = None
    /\ Viewed.version_name = None
    /\ result[1].val.version_code = 1

\* ------------------------------------------------------------------------
\* Properties of the platform lookup and of the emission (Spec)
\* ------------------------------------------------------------------------

\* The positions of the platform entries of r with the given id
EntriesWithId(r, id) == {i \in 1..Len(r.platform) : r.platform[i].id = id}

\* Two platform entries of r have the same id
HasDuplicateIds(r) ==
    \E i, j \in 1..Len(r.platform) : i < j /\ r.platform[i].id = r.platform[j].id

\* C25: platform_by_id(id) returns the entry with the lowest index whose id
\* is id and None exactly when no entry has that id; a manifest with
\* duplicate platform ids passes parsing and validation (its other fields
\* being valid), and the entry resolved for it is never a later duplicate.
C25_FirstMatch ==
    /\ [](Decided /\ HasDuplicateIds(raw[1]) /\ raw[1].version = 1 /\ NoViolation(raw[1])
            => Validated)
    /\ [](IsSome(platform) =>
            \E i \in EntriesWithId(raw[1], platform[1].id) :
                /\ platform[1] = raw[1].platform[i]
                /\ \A j \in EntriesWithId(raw[1], platform[1].id) : i <= j)
    /\ [][\A id \in PlatformArgs :
            SelectPlatform(id) =>
                IF EntriesWithId(raw[1], id) = {}
                THEN platform' = None /\ pc' = "exit" /\ code' = Some(1)
                ELSE /\ platform' # None
                     /\ platform'[1].id = id
                     /\ \E i \in EntriesWithId(raw[1], id) :
                           /\ platform'[1] = raw[1].platform[i]
                           /\ \A j \in EntriesWithId(raw[1], id) : i <= j
         ]_vars

\* The first of two entries with the same id has been selected.
C25_Witness ==
    /\ IsSome(platform)
    /\ HasDuplicateIds(raw[1])
    /\ platform[1] = raw[1].platform[1]
    /\ platform[1] # raw[1].platform[2]

\* The escaping of XML character data: `&` becomes `&amp;`, `<` becomes
\* `&lt;`
EscapedPcdata(s) == replace(replace(s, "&", "&amp;"), "<", "&lt;")

\* C26: the application name is substituted into
\* <string name="app_name">...</string> of strings.xml with each `&`
\* replaced by `&amp;` and each `<` by `&lt;`, so that the strings.xml
\* emitted for a validated manifest holds no raw `&` or `<` from the name.
C26_PcdataEscaped ==
    (Returned /\ result[1].ok /\ IsSome(SelectedAndroid)) =>
        LET strings == push(push(push(push(push(call[1].path, "src"), "main"), "res"),
                                 "values"), "strings.xml")
        IN /\ IsFile(fs, strings)
           /\ fs[strings].content =
                 strings_content(EscapedPcdata(raw[1].application[1].name[1]))
           /\ \A i \in 1..Len(fs[strings].content) :
                 fs[strings].content[i] \notin {"&", "<"}

\* C30: if emerge returns Error::ManifestKey when called on an absent
\* target directory, the target directory is absent afterwards (and the
\* file system is as it was), so that a later emerge with update=false
\* does not find the directory.
C30_MissingKeyNoEffect ==
    (Returned /\ ~result[1].ok /\ result[1].err.kind = "ManifestKey"
              /\ call[1].path \notin DOMAIN pre) =>
        /\ call[1].path \notin DOMAIN fs
        /\ fs = pre

\* local.properties of the target directory of the call
LocalProperties == push(call[1].path, "local.properties")

\* The step from the current state is the operation of emerge_android on
\* local.properties.
LocalPropertiesStep ==
    /\ pc = "files"
    /\ Head(files).path = LocalProperties
    /\ EmergeFile

\* C27: when the Android configuration has no sdk-path, emerge removes
\* local.properties from the target directory if it exists and goes on
\* without error if it does not exist; a removal that fails for another
\* reason than not-found makes emerge return FileRemoval with the path;
\* when sdk-path is present local.properties is written with the sdk.dir
\* line instead.  After a successful emerge local.properties exists if and
\* only if sdk-path is present.
C27_StaleRemoval ==
    /\ [][LocalPropertiesStep =>
            LET sdk_path == SelectedAndroid[1].sdk_path
                r == remove_file(fs, LocalProperties)
            IN IF ~IsSome(sdk_path)
               THEN /\ Head(files).op = "unlink_file"
                    /\ IsFile(fs, LocalProperties) =>
                          /\ LocalProperties \notin DOMAIN fs'
                          /\ \A q \in DOMAIN fs \ {LocalProperties} :
                                q \in DOMAIN fs' /\ fs'[q] = fs[q]
                          /\ pc' = "files" /\ result' = None
                    /\ LocalProperties \notin DOMAIN fs =>
                          fs' = fs /\ pc' = "files" /\ result' = None
                    /\ (~r.ok /\ r.err # "NotFound") =>
                          /\ result' = Some(Err(FileRemoval(LocalProperties, r.err)))
                          /\ code' = Some(1)
                          /\ pc' = "exit"
                          /\ fs' = fs
               ELSE /\ Head(files).op = "update_file"
                    /\ pc' = "files" =>
                          /\ IsFile(fs', LocalProperties)
                          /\ HasLine(fs'[LocalProperties].content,
                                     <<"sdk.dir=">> \o sdk_path[1])
                    /\ pc' # "files" =>
                          /\ result'[1].err.kind = "FileUpdate"
                          /\ result'[1].err.path = LocalProperties
       ]_vars
    /\ [](Returned /\ result[1].ok /\ IsSome(SelectedAndroid) =>
            (LocalProperties \in DOMAIN fs <=> IsSome(SelectedAndroid[1].sdk_path)))

\* emerge has failed to remove a local.properties that is a directory.
C27_Witness ==
    /\ Returned
    /\ result[1] = Err(FileRemoval(LocalProperties, "IsADirectory"))
    /\ IsDir(pre, LocalProperties)
    /\ ~IsSome(SelectedAndroid[1].sdk_path)

\* The operation writes or removes a file.
IsFileOp(o) == o.op # "ensure_dir"

\* The paths of the file operations among `ops`, in order
FilePathsOf(ops) ==
    LET fileOps == SelectSeq(ops, IsFileOp)
    IN [i \in 1..Len(fileOps) |-> fileOps[i].path]

\* The first eight files of the emission, in order
EmissionOrder(path) ==
    LET main == push(push(path, "src"), "main")
        res == push(main, "res")
    IN <<push(path, "gradle.properties"),
         push(path, "local.properties"),
         push(path, "settings.gradle"),
         push(path, "build.gradle"),
         push(main, "AndroidManifest.xml"),
         push(push(res, "layout"), "activity_main.xml"),
         push(push(res, "values"), "strings.xml"),
         push(push(res, "values"), "themes.xml")>>

\* `paths` is the order of emission: the eight files, then
\* MainActivity.java.
IsEmissionOrder(paths, path) ==
    /\ Len(paths) = 9
    /\ SubSeq(paths, 1, 8) = EmissionOrder(path)
    /\ paths[9][Len(paths[9])] = <<"MainActivity.java">>

\* The operation cannot succeed on the file system: a directory stands
\* where the file is to be, or a file where a directory is to be.
OpFails(f, o) ==
    IF o.op = "ensure_dir" THEN \E q \in Prefixes(o.path) : IsFile(f, q)
    ELSE IF o.op = "update_file" THEN IsDir(f, o.path) \/ ~IsDir(f, Parent(o.path))
    ELSE IsDir(f, o.path) \/ \E q \in ProperPrefixes(o.path) : IsFile(f, q)

\* emerge_android has returned the error of one of its file operations.
FailedAtOperation == Returned /\ ~result[1].ok /\ files # <<>>

\* C28: emerge performs its file operations in the order gradle.properties,
\* local.properties, settings.gradle, build.gradle, AndroidManifest.xml,
\* activity_main.xml, strings.xml, themes.xml, MainActivity.java; when an
\* operation fails emerge returns its error at once, the files before it
\* hold their new content, the files after it are as they were before the
\* call, and nothing is undone.
C28_OrderedEmission ==
    /\ [][(\E update \in BOOLEAN : Emerge(update)) /\ pc' = "files" =>
            IsEmissionOrder(FilePathsOf(files'), call'[1].path)]_vars
    /\ [][EmergeFile =>
            IF OpFails(fs, Head(files))
            THEN /\ pc' = "exit"
                 /\ ~result'[1].ok
                 /\ result'[1].err.path = Head(files).path
                 /\ files' = files
            ELSE /\ files' = Tail(files)
                 /\ \A q \in DOMAIN fs : q # Head(files).path => q \in DOMAIN fs' /\ fs'[q] = fs[q]
                 /\ pc' = "exit" => files' = <<>> /\ result'[1].ok
       ]_vars
    /\ [](FailedAtOperation =>
            LET path == call[1].path
                android == SelectedAndroid[1]
                order == EmissionOrder(path)
                later == {FilePathsOf(Tail(files))[i] : i \in 1..Len(FilePathsOf(Tail(files)))}
                failed == Head(files).path
                earlier == {order[i] : i \in 1..8} \ (later \cup {failed})
            IN /\ \A p \in earlier :
                    IF p = push(path, "local.properties")
                    THEN IF IsSome(android.sdk_path)
                         THEN /\ IsFile(fs, p)
                              /\ HasLine(fs[p].content, <<"sdk.dir=">> \o android.sdk_path[1])
                         ELSE p \notin DOMAIN fs
                    ELSE /\ IsFile(fs, p)
                         /\ \E e \in ExpectedFiles(path, manifest[1], android) :
                                e[1] = p /\ fs[p].content = e[2]
               /\ \A p \in later :
                    IF p \in DOMAIN pre THEN p \in DOMAIN fs /\ fs[p] = pre[p]
                    ELSE p \notin DOMAIN fs)

\* The update of strings.xml has failed: settings.gradle before it holds
\* its new content, themes.xml after it holds what it held.
C28_Witness ==
    /\ FailedAtOperation
    /\ result[1].err.kind = "FileUpdate"
    /\ result[1].err.path = EmissionOrder(call[1].path)[7]
    /\ fs[EmissionOrder(call[1].path)[3]] # pre[EmissionOrder(call[1].path)[3]]
    /\ fs[EmissionOrder(call[1].path)[8]].content = UserContent

\* ------------------------------------------------------------------------
\* The command line and the build operation
\* (src/src/bin/cargo-osiris.rs, src/src/op/build.rs): one run of the
\* process, from its arguments to its exit code.
\* ------------------------------------------------------------------------

\* The options of the command line that start with `--`
LongOptions == {"--manifest", "--platform", "--update", "--verbose"}

HelpFlags == {"--help", "-h"}

VersionFlags == {"--version", "-V"}

\* The matches of a subcommand: `--platform` is required, `--update` is an
\* option of `emerge` only and takes a boolean.
RECURSIVE parse_subcommand(_, _, _)
parse_subcommand(args, i, m) ==
    IF i > Len(args) THEN
        IF ~IsSome(m.platform) THEN Err("MissingRequiredArgument")
        ELSE Ok(m)
    ELSE IF args[i] \in HelpFlags THEN Err("DisplayHelp")
    ELSE IF args[i] \in VersionFlags THEN Err("DisplayVersion")
    ELSE IF args[i] = "--platform" THEN
        IF i + 1 > Len(args) THEN Err("InvalidValue")
        ELSE parse_subcommand(args, i + 2, [m EXCEPT !.platform = Some(<<args[i + 1]>>)])
    ELSE IF args[i] = "--update" /\ m.op = "emerge" THEN
        IF i + 1 > Len(args) THEN Err("InvalidValue")
        ELSE IF args[i + 1] \notin {"true", "false"} THEN Err("ValueValidation")
        ELSE parse_subcommand(args, i + 2, [m EXCEPT !.update = (args[i + 1] = "true")])
    ELSE Err("UnknownArgument")

\* Command::try_get_matches_from for the command Cli::new builds: the
\* option `--manifest` with its default, a required subcommand `build` or
\* `emerge`, the help and version flags at both levels.
RECURSIVE try_get_matches_from(_, _, _)
try_get_matches_from(args, i, manifest_path) ==
    IF i > Len(args) THEN Err("MissingSubcommand")
    ELSE IF args[i] \in HelpFlags THEN Err("DisplayHelp")
    ELSE IF args[i] \in VersionFlags THEN Err("DisplayVersion")
    ELSE IF args[i] = "--manifest" THEN
        IF i + 1 > Len(args) THEN Err("InvalidValue")
        ELSE try_get_matches_from(args, i + 2, args[i + 1])
    ELSE IF args[i] \in {"build", "emerge"} THEN
        parse_subcommand(args, i + 1,
                         [op |-> args[i], manifest |-> manifest_path,
                          platform |-> None, update |-> FALSE])
    ELSE IF args[i] \in LongOptions THEN Err("UnknownArgument")
    ELSE Err("InvalidSubcommand")

\* Cli::run, the exit code for a command line clap has not accepted.
run_exit_code_help_is_error(kind) == 2

run_exit_code(kind) == IF kind \in {"DisplayHelp", "DisplayVersion"} THEN 0 ELSE 2

\* The command lines of a run (without the name of the program)
CommandLines ==
    {<<>>,
     <<"--help">>,
     <<"-V">>,
     <<"deploy">>,
     <<"--verbose", "build">>,
     <<"--manifest">>,
     <<"build">>,
     <<"build", "--help">>,
     <<"build", "--version">>,
     <<"build", "--platform">>,
     <<"build", "--platform", "android">>,
     <<"build", "--platform", "ios">>,
     <<"build", "--platform", "android", "--update", "true">>,
     <<"--manifest", "m.toml", "build", "--platform", "android">>,
     <<"emerge", "--platform", "android">>,
     <<"emerge", "--platform", "ios">>,
     <<"emerge", "--platform", "android", "--update", "true">>,
     <<"emerge", "--platform", "android", "--update", "maybe">>,
     <<"emerge", "--update", "true">>}

\* The errors of Metadata::cargo that Cli::metadata reports
MetadataErrors == {"Standalone", "Exec", "Cargo", "Unicode", "Json", "Data"}

\* The target directory cargo reports
TargetDirectory == <<"/", "w", "/", "target">>

MetadataResults ==
    {Err(e) : e \in MetadataErrors} \cup {Ok([target_directory |-> TargetDirectory])}

\* PathBuf::push on the string of a path
path_push(s, name) ==
    IF is_absolute(name) THEN name
    ELSE IF s = <<>> THEN name
    ELSE s \o <<"/">> \o name

\* build: <target>/osiris/platform/<platform>
scratch_platform_path(metadata_, platform_) ==
    path_push(path_push(path_push(metadata_.target_directory, <<"osiris">>),
                        <<"platform">>), platform_.id)

\* build: <target>/osiris/build/<platform>
build_path(metadata_, platform_) ==
    path_push(path_push(path_push(metadata_.target_directory, <<"osiris">>),
                        <<"build">>), platform_.id)

\* build::Error
Exec(bin, e) == [kind |-> "Exec", bin |-> bin, error |-> e]

Build == [kind |-> "Build"]

\* emerge_android, "Create the persistent files": the operations are
\* applied in order, up to the first that fails.
RECURSIVE emerge_android_apply(_, _)
emerge_android_apply(f, ops) ==
    IF ops = <<>> THEN [fs |-> f, result |-> Ok(<<>>)]
    ELSE LET r == apply_op(f, Head(ops)) IN
         IF ~r.ok THEN [fs |-> f, result |-> r]
         ELSE emerge_android_apply(r.val, Tail(ops))

\* emerge_android as one call: its result and the file system it leaves
emerge_android(f, manifest_, android, path) ==
    LET missing == emerge_android_missing(manifest_, android) IN
    IF IsSome(missing) THEN [fs |-> f, result |-> Err(ManifestKey(missing[1]))]
    ELSE emerge_android_apply(f, emerge_android_files(manifest_, android, path))

\* emerge as one call: its result and the file system it leaves
emerge(f, manifest_, platform_, path_override, update) ==
    LET path == resolve(emerge_platform_path(platform_, path_override))
        d == emerge_directory(f, path, update)
    IN IF ~d.ok THEN [fs |-> f, result |-> d]
       ELSE IF ~IsSome(platform_.configuration) THEN [fs |-> d.val, result |-> Ok(<<>>)]
       ELSE emerge_android(d.val, manifest_, platform_.configuration[1], path)

\* build, the check of the platform directory: "accessible", "absent", or
\* "error".
build_accessible_any_node(f, path) ==
    LET m == metadata(f, path) IN
    IF m.ok THEN "accessible"
    ELSE IF m.err = "NotFound" THEN "absent"
    ELSE "error"

build_accessible(f, path) ==
    LET m == metadata(f, path) IN
    IF m.ok THEN (IF m.val.kind = "dir" THEN "accessible" ELSE "error")
    ELSE IF m.err = "NotFound" THEN "absent"
    ELSE "error"

\* The outcomes of Command::output: the process could not be started, or
\* it ran and exited with a status.
ExitStatuses == {0, 1, 2}

ToolOutcomes ==
    {[started |-> FALSE, error |-> "NotFound"]}
    \cup {[started |-> TRUE, status |-> n] : n \in ExitStatuses}

\* build_android, the result for the outcome of the build tool
build_android_result_any_exit(out) ==
    IF ~out.started THEN Err(Exec("gradle", out.error))
    ELSE Ok(<<>>)

build_android_result(out) ==
    IF ~out.started THEN Err(Exec("gradle", out.error))
    ELSE IF out.status # 0 THEN Err(Build)
    ELSE Ok(<<>>)

\* The manifests of a run of build
BuildRaws ==
    {FullRaw,
     MinimalRaw,
     RawOf(FullApplication, Without(FullAndroid, {"sdk_path"})),
     RawOf(FullApplication, Without(FullAndroid, {"ndk_level"})),
     [FullRaw EXCEPT !.version = 2],
     Raw(1, None, <<RawPlatform(AndroidId, None, Some(FullAndroid))>>),
     Raw(1, Some(FullApplication), <<RawPlatform(AndroidId, None, None)>>),
     Raw(1, Some(FullApplication),
         <<RawPlatform(AndroidId, Some(<<".", "/", "out">>), Some(FullAndroid))>>)}

BuildDocs == {None} \cup {Some(r) : r \in BuildRaws}

\* <target>/osiris/platform/android
Scratch ==
    resolve(scratch_platform_path([target_directory |-> TargetDirectory],
                                  RawPlatform(AndroidId, None, None)))

\* The platform directory cannot be inspected: ./platform is a file.
FsPlatformFile == FsOf({Cwd}, {<<Parent(Target), UserContent>>})

\* The target directory of cargo is a file.
FsTargetFile == FsOf({Cwd}, {<<resolve(TargetDirectory), UserContent>>})

\* An earlier build has left its platform directory.
FsScratch == FsOf({Scratch}, {<<push(Scratch, "build.gradle"), <<"// old", "\n">> >>})

\* local.properties of the platform directory of an earlier build is a
\* directory.
FsScratchBlocked == FsOf({push(Scratch, "local.properties")}, {})

\* <target>/osiris/build is a file.
FsBuildFile == FsOf({Cwd}, {<<push(Parent(Parent(Scratch)), "build"), UserContent>>})

BuildFs ==
    {FsAbsent, FsNotADirectory, FsEmpty, FsUser, FsBlocked, FsLocalPropertiesDir,
     FsPlatformFile, FsTargetFile, FsScratch, FsScratchBlocked, FsBuildFile}

BuildInit ==
    /\ fs \in BuildFs
    /\ pc = "args"
    /\ input = None
    /\ raw = None
    /\ manifest = None
    /\ platform = None
    /\ call = None
    /\ files = <<>>
    /\ result = None
    /\ code = None
    /\ pre = fs
    /\ trace = <<>>
    /\ runs = 0
    /\ last = None
    /\ argv = None
    /\ cargo = None
    /\ path_platform = None
    /\ tool = <<>>
    /\ outcome = None

\* Cli::run, the command line: help and version exit with 0, every other
\* error of clap with 2.
CliRun(args) ==
    /\ pc = "args"
    /\ LET r == try_get_matches_from(args, 1, "./osiris-platform.toml") IN
       /\ argv' = Some(r)
       /\ IF r.ok
          THEN /\ pc' = "manifest"
               /\ UNCHANGED code
          ELSE /\ pc' = "exit"
               /\ code' = Some(run_exit_code(r.err))
    /\ trace' = Append(trace, "args")
    /\ UNCHANGED <<fs, input, raw, manifest, platform, call, files, result, pre, runs,
                   last, cargo, path_platform, tool, outcome>>

\* Cli::manifest: the manifest is read, validated and viewed.
CliManifest(doc) ==
    /\ pc = "manifest"
    /\ input' = Some(doc)
    /\ LET r == Raw_parse_str(doc) IN
       IF ~r.ok
       THEN Fail("parse") /\ UNCHANGED <<raw, manifest>>
       ELSE LET m == parse_raw(r.val) IN
            IF ~m.ok
            THEN Fail("validate") /\ raw' = Some(r.val) /\ UNCHANGED manifest
            ELSE /\ raw' = Some(r.val)
                 /\ manifest' = Some(m.val)
                 /\ IF ~view_application(m.val.raw).ok
                    THEN Fail("resolve")
                    ELSE /\ pc' = IF argv[1].val.op = "build" THEN "metadata" ELSE "platform"
                         /\ trace' = Append(trace, "resolve")
                         /\ UNCHANGED code
    /\ UNCHANGED <<fs, platform, call, files, result, pre, runs, last, buildVars>>

\* Cli::metadata: every error of the query is reported and exits with 1.
CliMetadata(m) ==
    /\ pc = "metadata"
    /\ IF m.ok
       THEN /\ cargo' = Some(m.val)
            /\ pc' = "platform"
            /\ trace' = Append(trace, "metadata")
            /\ UNCHANGED code
       ELSE /\ Fail("metadata")
            /\ UNCHANGED cargo
    /\ UNCHANGED <<fs, input, raw, manifest, platform, call, files, result, pre, runs,
                   last, argv, path_platform, tool, outcome>>

\* Cli::platform, for the platform named on the command line
CliPlatform ==
    /\ pc = "platform"
    /\ LET r == platform_by_id(manifest[1].raw, argv[1].val.platform[1]) IN
       IF IsSome(r)
       THEN /\ platform' = r
            /\ pc' = argv[1].val.op
            /\ trace' = Append(trace, "platform")
            /\ UNCHANGED code
       ELSE /\ Fail("platform")
            /\ UNCHANGED platform
    /\ UNCHANGED <<fs, input, raw, manifest, call, files, result, pre, runs, last, buildVars>>

\* build returns: Cli::op_build maps the result to the exit code.
BuildReturn(r) ==
    /\ outcome' = Some(r)
    /\ code' = Some(IF r.ok THEN 0 ELSE 1)
    /\ pc' = "exit"

\* build, the choice of the platform directory: the directory of the
\* manifest when it exists, the directory under the target directory of
\* cargo, created here, when it does not.
BuildSelect ==
    /\ pc = "build"
    /\ LET path == resolve(RawPlatform_path(platform[1]))
           accessible == build_accessible(fs, path)
           scratch == resolve(scratch_platform_path(cargo[1], platform[1]))
           created == create_dir_all(fs, scratch)
       IN IF accessible = "error"
          THEN /\ BuildReturn(Err(PlatformDirectory(path)))
               /\ UNCHANGED <<fs, path_platform>>
          ELSE IF accessible = "accessible"
          THEN /\ path_platform' = Some(path)
               /\ pc' = "build_dir"
               /\ UNCHANGED <<fs, outcome, code>>
          ELSE IF ~created.ok
          THEN /\ BuildReturn(Err(DirectoryCreation(scratch)))
               /\ path_platform' = Some(scratch)
               /\ UNCHANGED fs
          ELSE /\ fs' = created.val
               /\ path_platform' = Some(scratch)
               /\ pc' = "build_emerge"
               /\ UNCHANGED <<outcome, code>>
    /\ trace' = Append(trace, "select")
    /\ UNCHANGED <<input, raw, manifest, platform, call, files, result, pre, runs, last,
                   argv, cargo, tool>>

\* build, the call of emerge into the directory under the target
\* directory; `Already` ends the process in `unreachable!`.
BuildEmerge ==
    /\ pc = "build_emerge"
    /\ LET e == emerge(fs, manifest[1], platform[1],
                       Some(scratch_platform_path(cargo[1], platform[1])), TRUE)
       IN /\ call' = Some([path |-> path_platform[1], update |-> TRUE])
          /\ result' = Some(e.result)
          /\ fs' = e.fs
          /\ IF e.result.ok
             THEN /\ pc' = "build_dir"
                  /\ UNCHANGED <<outcome, code>>
             ELSE IF e.result.err = Already
             THEN /\ pc' = "panic"
                  /\ code' = Some(101)
                  /\ UNCHANGED outcome
             ELSE BuildReturn(Err(e.result.err))
    /\ trace' = Append(trace, "emit")
    /\ UNCHANGED <<input, raw, manifest, platform, files, pre, runs, last,
                   argv, cargo, path_platform, tool>>

\* build, the directory of the build artifacts and the dispatch to the
\* platform; build_android up to the command it is about to run.
BuildDirectory ==
    /\ pc = "build_dir"
    /\ LET path_build == resolve(build_path(cargo[1], platform[1]))
           created == create_dir_all(fs, path_build)
           android == platform[1].configuration
       IN IF ~created.ok
          THEN /\ BuildReturn(Err(DirectoryCreation(path_build)))
               /\ UNCHANGED fs
          ELSE /\ fs' = created.val
               /\ IF ~IsSome(android)
                  THEN BuildReturn(Ok(<<>>))
                  ELSE LET view_app == view_application(manifest[1].raw)
                           view_android == RawPlatformAndroid_view(android[1], manifest[1].raw)
                       IN IF ~view_app.ok
                          THEN BuildReturn(Err(ManifestKey(view_app.err.key)))
                          ELSE IF ~view_android.ok
                          THEN BuildReturn(Err(ManifestKey(view_android.err.key)))
                          ELSE /\ pc' = "gradle"
                               /\ UNCHANGED <<outcome, code>>
    /\ trace' = Append(trace, "build_dir")
    /\ UNCHANGED <<input, raw, manifest, platform, call, files, result, pre, runs, last,
                   argv, cargo, path_platform, tool>>

\* build_android, the run of the build tool
BuildAndroid(out) ==
    /\ pc = "gradle"
    /\ tool' = Append(tool, [bin |-> "gradle", project_dir |-> path_platform[1],
                             outcome |-> out])
    /\ BuildReturn(build_android_result(out))
    /\ trace' = Append(trace, "gradle")
    /\ UNCHANGED <<fs, input, raw, manifest, platform, call, files, result, pre, runs,
                   last, argv, cargo, path_platform>>

BuildNext ==
    \/ \E args \in CommandLines : CliRun(args)
    \/ \E doc \in BuildDocs : CliManifest(doc)
    \/ \E m \in MetadataResults : CliMetadata(m)
    \/ CliPlatform
    \/ Emerge(argv[1].val.update)
    \/ EmergeFile
    \/ BuildSelect
    \/ BuildEmerge
    \/ BuildDirectory
    \/ \E out \in ToolOutcomes : BuildAndroid(out)

BuildSpec == BuildInit /\ [][BuildNext]_vars

\* ------------------------------------------------------------------------
\* Properties of build and of the command line (BuildSpec)
\* ------------------------------------------------------------------------

\* The run has gone through the stage.
Reached(stage) == \E i \in 1..Len(trace) : trace[i] = stage

\* The platform directory the manifest declares
DeclaredPath == resolve(RawPlatform_path(platform[1]))

\* <target_directory>/osiris/platform/<platform id>
EphemeralPath ==
    resolve(cargo[1].target_directory) \o << <<"osiris">>, <<"platform">>, platform[1].id >>

\* C21: if the platform path the manifest declares exists as a directory,
\* build does not call emerge, hands that path to the build tool as
\* --project-dir and leaves everything under it as it was; if the path is
\* absent, build calls emerge with update=true on
\* <target_directory>/osiris/platform/<platform id> and hands that
\* directory to the tool; if the path is not a directory or cannot be
\* inspected, build returns PlatformDirectory, and neither emerge nor the
\* tool is run.
C21_DirectorySelection ==
    Reached("select") =>
        /\ Reached("gradle") <=> Len(tool) = 1
        /\ IF IsDir(pre, DeclaredPath)
           THEN /\ call = None
                /\ result = None
                /\ ~Reached("emit")
                /\ path_platform = Some(DeclaredPath)
                /\ \A i \in 1..Len(tool) : tool[i].project_dir = DeclaredPath
                /\ \A p \in DOMAIN pre \cup DOMAIN fs :
                        IsPrefix(DeclaredPath, p) =>
                            p \in DOMAIN pre /\ p \in DOMAIN fs /\ fs[p] = pre[p]
           ELSE IF metadata(pre, DeclaredPath) = Err("NotFound")
           THEN /\ path_platform = Some(EphemeralPath)
                /\ \/ Reached("emit")
                   \/ pc = "build_emerge"
                   \/ outcome = Some(Err(DirectoryCreation(EphemeralPath)))
                /\ Reached("emit") => call = Some([path |-> EphemeralPath, update |-> TRUE])
                /\ \A i \in 1..Len(tool) :
                        tool[i].project_dir = EphemeralPath /\ Reached("emit") /\ result[1].ok
           ELSE /\ outcome = Some(Err(PlatformDirectory(DeclaredPath)))
                /\ pc = "exit"
                /\ call = None
                /\ ~Reached("emit")
                /\ tool = <<>>
                /\ fs = pre

\* build has run the tool on the directory of the manifest, which held
\* files of the user.
C21_Witness ==
    /\ Reached("select")
    /\ IsDir(pre, DeclaredPath)
    /\ IsFile(pre, push(DeclaredPath, "notes.txt"))
    /\ Len(tool) = 1
    /\ tool[1].project_dir = DeclaredPath

\* C22: every call of build that gets past the selection of the directory,
\* the emission and the views without error runs the build tool exactly
\* once, whatever the platform entry, one without platform configuration
\* included; build never returns Ok without having run it.
C22_AlwaysInvokes ==
    /\ Len(tool) <= 1
    /\ (IsSome(outcome) /\ outcome[1].ok) => Len(tool) = 1

\* C23: once the build tool has been started, build returns Ok if and only
\* if its exit status is success and Error::Build for every other status;
\* a tool that cannot be started makes build return Error::Exec; the tool
\* is not run a second time.
C23_ExitStatus ==
    tool # <<>> =>
        LET out == tool[1].outcome IN
        /\ Len(tool) = 1
        /\ pc = "exit"
        /\ IsSome(outcome)
        /\ outcome[1].ok <=> (out.started /\ out.status = 0)
        /\ (out.started /\ out.status # 0) => outcome[1] = Err(Build)
        /\ ~out.started => (~outcome[1].ok /\ outcome[1].err.kind = "Exec")

\* The tool has exited with status 2 and build has returned Error::Build.
C23_Witness ==
    /\ tool # <<>>
    /\ tool[1].outcome.started
    /\ tool[1].outcome.status = 2
    /\ outcome = Some(Err(Build))

\* clap has printed the help or the version.
HelpOrVersion ==
    IsSome(argv) /\ ~argv[1].ok /\ argv[1].err \in {"DisplayHelp", "DisplayVersion"}

\* clap has rejected the command line.
ArgumentError ==
    IsSome(argv) /\ ~argv[1].ok /\ argv[1].err \notin {"DisplayHelp", "DisplayVersion"}

\* The operation of the command line has returned Ok.
Succeeded ==
    /\ IsSome(argv)
    /\ argv[1].ok
    /\ \/ argv[1].val.op = "build" /\ IsSome(outcome) /\ outcome[1].ok
       \/ argv[1].val.op = "emerge" /\ Returned /\ result[1].ok

\* The run has ended with an error the command line reports: the manifest,
\* the metadata, the platform, or the operation.
OperationalError ==
    /\ IsSome(argv)
    /\ argv[1].ok
    /\ pc = "exit"
    /\ \/ platform = None
       \/ argv[1].val.op = "build" /\ IsSome(outcome) /\ ~outcome[1].ok
       \/ argv[1].val.op = "emerge" /\ Returned /\ ~result[1].ok

\* C24: the process exits with 0 exactly when the operation has succeeded
\* or the help or the version has been printed, with 1 for every error of
\* the manifest, the metadata, the platform, emerge and build, with 2 for
\* every command line clap rejects, and with no other code.
C24_ExitCodes ==
    /\ IsSome(code) <=> pc = "exit"
    /\ IsSome(code) =>
        /\ code[1] \in {0, 1, 2}
        /\ code[1] = 0 <=> (HelpOrVersion \/ Succeeded)
        /\ code[1] = 1 <=> OperationalError
        /\ code[1] = 2 <=> ArgumentError

\* The help of a subcommand has been printed.
C24_Witness == HelpOrVersion /\ code = Some(0)

\* C29: in every run of build in which emerge is called on the directory
\* under the target directory, build has created that directory, passes
\* update=true, and emerge does not return Error::Already, so that the
\* `unreachable!` of build is not reached.
C29_NeverAlready ==
    /\ [][BuildEmerge =>
            /\ IsDir(fs, path_platform[1])
            /\ call'[1].update
            /\ result'[1] # Err(Already)
            /\ pc' # "panic"]_vars
    /\ [](pc # "panic")

\* emerge has updated the directory an earlier build has left.
C29_Witness ==
    /\ Reached("emit")
    /\ argv[1].val.op = "build"
    /\ IsFile(pre, push(path_platform[1], "build.gradle"))
    /\ result[1].ok
    /\ fs[push(path_platform[1], "build.gradle")] # pre[push(path_platform[1], "build.gradle")]

=============================================================================
